---- MODULE Spec2Model ----
(***************************************************************************)
(* A model of the etree crate: ETreeNode records kept in a flat sequence,  *)
(* the parser (ETree::read), the serializer (ETree::write), navigation by  *)
(* route strings and the mutation operations of ETree.                     *)
(*                                                                         *)
(* Encodings.                                                              *)
(*  - A Rust String is a sequence of one-character strings: "n" is the     *)
(*    newline, "s" a space, "r" a carriage return, "x" and "y" letters.    *)
(*  - A route "#i1#i2#...#ik#" is the sequence <<i1, ..., ik>> of its      *)
(*    segments ("#" is <<>>).  Every route the code builds starts and ends *)
(*    with '#', so starts_with on routes is the prefix order on segments,  *)
(*    format!("{}{}#", route, idx) is Append, and the regex                *)
(*    ^(#.*?)(\d+)#$ splits off the last segment.                          *)
(*  - Option<usize> is an integer, None being NoPos.  Option<String> is a  *)
(*    record [some, s].                                                    *)
(*  - Positions are the 0-based indexes of the Rust Vec; data[pos] is      *)
(*    written T.data[pos + 1].                                             *)
(*  - A panic (unwrap of None, index out of range) sets the fault flag of  *)
(*    the result; the program stops there.                                 *)
(***************************************************************************)
EXTENDS Integers, Sequences, FiniteSets, TLC

VARIABLES trees,   \* trees[1]: the parsed tree, trees[2]: a second tree of the caller
          rd,      \* locals of ETree::read: status, route, closeidx, previous event
          pc,      \* "read" while parsing, "ready" afterwards
          last,    \* the last operation: its name, tree, position and result
          nops,    \* the number of operations that changed a tree so far
          nsub,    \* the number of subtree calls so far
          out,     \* the events ETree::write has written
          iter,    \* the XPathIterator the caller holds
          fault    \* TRUE once an operation has panicked

vars == <<trees, rd, pc, last, nops, nsub, out, iter, fault>>

(***************************************************************************)
(* Bounds of the model.                                                    *)
(***************************************************************************)
\* the entries of a parsed document that is edited afterwards
MaxParseNodes == 2

\* the entries of a parsed document that is written and parsed again
MaxDocNodes == 3

\* the entries of a parsed document that is laid out afterwards
MaxPrettyNodes == 3

\* the entries of a tree
MaxNodes == 6

\* the insert, graft, remove and pretty calls after parsing
MaxOps == 2

\* the subtree calls after parsing
MaxExtracts == 1

(***************************************************************************)
(* Strings.                                                                *)
(***************************************************************************)
NoPos == 0 - 1

None == [some |-> FALSE, s |-> <<>>]

Some(str) == [some |-> TRUE, s |-> str]

NoneB == [some |-> FALSE, s |-> ""]

SomeB(str) == [some |-> TRUE, s |-> str]

SetMax(S) == CHOOSE m \in S : \A k \in S : k <= m

SetMin(S) == CHOOSE m \in S : \A k \in S : m <= k

StartsWith(str, p) == Len(p) <= Len(str) /\ SubSeq(str, 1, Len(p)) = p

EndsWith(str, p) ==
    Len(p) <= Len(str) /\ SubSeq(str, Len(str) - Len(p) + 1, Len(str)) = p

IsWhite(c) == c \in {"n", "s", "r"}

RECURSIVE TrimStart(_)
TrimStart(str) ==
    IF str # <<>> /\ IsWhite(Head(str)) THEN TrimStart(Tail(str)) ELSE str

RECURSIVE TrimEnd(_)
TrimEnd(str) ==
    IF str # <<>> /\ IsWhite(str[Len(str)])
    THEN TrimEnd(SubSeq(str, 1, Len(str) - 1))
    ELSE str

Trim(str) == TrimEnd(TrimStart(str))

RECURSIVE Repeat(_, _)
Repeat(str, k) == IF k <= 0 THEN <<>> ELSE str \o Repeat(str, k - 1)

\* Vec::insert one slot too early
InsertBefore(seq, i, x) ==
    IF i = 0 THEN <<x>> \o seq
    ELSE SubSeq(seq, 1, i - 1) \o <<x>> \o SubSeq(seq, i, Len(seq))

InsertAt(seq, i, x) == SubSeq(seq, 1, i) \o <<x>> \o SubSeq(seq, i + 1, Len(seq))

(***************************************************************************)
(* ETreeNode.                                                              *)
(***************************************************************************)
Synthetic == {"<Comment>", "<CData>", "<PI>", "<DocType>"}

IsSynthetic(name) == name \in Synthetic

NewNode(localname) ==
    [idx |-> 0, name |-> localname, attr |-> <<>>, text |-> None,
     tail |-> <<>>, route |-> <<>>]

FindAttr(attr, key) ==
    LET hits == {i \in 1..Len(attr) : attr[i][1] = key}
    IN IF hits = {} THEN 0 ELSE SetMin(hits)

SetAttr(node, key, value) ==
    LET i == FindAttr(node.attr, key)
    IN IF i # 0
       THEN [node EXCEPT !.attr = [node.attr EXCEPT ![i] = <<key, value>>]]
       ELSE [node EXCEPT !.attr = Append(node.attr, <<key, value>>)]

RECURSIVE SetAttrs(_, _)
SetAttrs(node, attrs) ==
    IF attrs = <<>> THEN node
    ELSE SetAttrs(SetAttr(node, Head(attrs)[1], Head(attrs)[2]), Tail(attrs))

(***************************************************************************)
(* ETree: construction and navigation.                                     *)
(***************************************************************************)
EmptyTree(fileformat) ==
    [indent |-> <<>>, count |-> 0, version |-> "", encoding |-> NoneB,
     standalone |-> NoneB, data |-> <<>>, crlf |-> fileformat,
     enable_index |-> FALSE, index |-> {}]

NodeAt(T, pos) == T.data[pos + 1]

DataLen(T) == Len(T.data)

SetTail(T, pos, str) == [T EXCEPT !.data[pos + 1].tail = str]

SetText(T, pos, str) == [T EXCEPT !.data[pos + 1].text = Some(str)]

ChildRoute(T, pos) == Append(NodeAt(T, pos).route, NodeAt(T, pos).idx)

Root(T) ==
    LET real == {i \in 0..DataLen(T) - 1 : ~IsSynthetic(NodeAt(T, i).name)}
    IN IF real = {} THEN DataLen(T) ELSE SetMin(real)

Parent(T, pos) ==
    IF pos <= 0 \/ pos >= DataLen(T) THEN NoPos
    ELSE LET route == NodeAt(T, pos).route
         IN IF route = <<>> THEN NoPos
            ELSE LET up == SubSeq(route, 1, Len(route) - 1)
                     hits == {q \in 0..pos - 1 : NodeAt(T, q).route = up}
                 IN IF hits = {} THEN NoPos ELSE SetMax(hits)

\* the first position after pos whose route does not start with route
ScanStop(T, pos, route) ==
    LET stops == {i \in pos + 1..DataLen(T) - 1 :
                     ~StartsWith(NodeAt(T, i).route, route)}
    IN IF stops = {} THEN DataLen(T) ELSE SetMin(stops)

RECURSIVE Ascending(_, _)
Ascending(lo, hi) == IF lo > hi THEN <<>> ELSE <<lo>> \o Ascending(lo + 1, hi)

RECURSIVE Filter(_, _, _)
Filter(T, seq, route) ==
    IF seq = <<>> THEN <<>>
    ELSE IF NodeAt(T, Head(seq)).route = route
         THEN <<Head(seq)>> \o Filter(T, Tail(seq), route)
         ELSE Filter(T, Tail(seq), route)

Descendant(T, pos) ==
    IF pos < DataLen(T)
    THEN Ascending(pos + 1, ScanStop(T, pos, ChildRoute(T, pos)) - 1)
    ELSE <<>>

Children(T, pos) ==
    IF pos < DataLen(T)
    THEN Filter(T, Descendant(T, pos), ChildRoute(T, pos))
    ELSE <<>>

Previous(T, pos) ==
    IF pos <= 0 \/ pos >= DataLen(T) THEN NoPos
    ELSE LET route == NodeAt(T, pos).route
             stops == {q \in 0..pos - 1 : ~StartsWith(NodeAt(T, q).route, route)}
             lo == IF stops = {} THEN 0 ELSE SetMax(stops) + 1
             hits == {q \in lo..pos - 1 : NodeAt(T, q).route = route}
         IN IF hits = {} THEN NoPos ELSE SetMax(hits)

Next(T, pos) ==
    IF pos >= DataLen(T) - 1 THEN NoPos
    ELSE LET route == NodeAt(T, pos).route
             hi == ScanStop(T, pos, route) - 1
             hits == {q \in pos + 1..hi : NodeAt(T, q).route = route}
         IN IF hits = {} THEN NoPos ELSE SetMin(hits)

(***************************************************************************)
(* The index: a HashMap from identity to position, kept as a set of pairs  *)
(* <<identity, position>> with at most one pair for an identity.           *)
(***************************************************************************)
IndexGet(index, idx) ==
    IF \E e \in index : e[1] = idx
    THEN (CHOOSE e \in index : e[1] = idx)[2]
    ELSE NoPos

IndexInsert(index, idx, pos) == {e \in index : e[1] # idx} \cup {<<idx, pos>>}

IndexRemove(index, ids) == {e \in index : e[1] \notin ids}

\* the HashMap after inserting data[i]'s identity for i = 0, 1, ...: of two
\* entries with one identity the later one stays
GenerateIndex(T) ==
    IF T.enable_index
    THEN [T EXCEPT !.index =
            {<<NodeAt(T, i).idx,
               SetMax({j \in 0..DataLen(T) - 1 : NodeAt(T, j).idx = NodeAt(T, i).idx})>> :
                 i \in 0..DataLen(T) - 1}]
    ELSE T

\* for i in pos..len: a key that is present takes position i
UpdateIndex(T, pos) ==
    IF T.enable_index
    THEN [T EXCEPT !.index =
            {LET hits == {i \in pos..DataLen(T) - 1 : NodeAt(T, i).idx = e[1]}
             IN <<e[1], IF hits = {} THEN e[2] ELSE SetMax(hits)>> : e \in T.index}]
    ELSE T

SetEnableIndex(T, enable_index) == GenerateIndex([T EXCEPT !.enable_index = enable_index])

\* the linear scan of ETree::pos
ScanPos(T, idx) ==
    LET hits == {i \in 0..DataLen(T) - 1 : NodeAt(T, i).idx = idx}
    IN IF hits = {} THEN NoPos ELSE SetMin(hits)

Pos(T, idx) == IF T.enable_index THEN IndexGet(T.index, idx) ELSE ScanPos(T, idx)

\* no iterator: the caller has made none
NoIter ==
    [t |-> 0, direction |-> TRUE, path_list |-> <<>>, todo_list |-> <<>>,
     path |-> <<>>, pos |-> NoPos, got |-> <<>>, ended |-> FALSE, calls |-> 0]

\* line 204: self.data.len() - 1 on an empty sequence.  A debug build panics
\* on the subtraction; a release build wraps and panics on self.data[pos].
NextFault(T, pos) == DataLen(T) = 0

(***************************************************************************)
(* The parser.  An event is a record [k, name, attr, s, decl]; the         *)
(* tokenizer (quick_xml) hands them to ETree::read one at a time.          *)
(***************************************************************************)
Ev(k, name, attr, str) ==
    [k |-> k, name |-> name, attr |-> attr, s |-> str,
     decl |-> [version |-> "", encoding |-> NoneB, standalone |-> NoneB]]

EvDeclOf(version, encoding, standalone) ==
    [k |-> "Decl", name |-> "", attr |-> <<>>, s |-> <<>>,
     decl |-> [version |-> version, encoding |-> encoding,
               standalone |-> standalone]]

ReaderInit(fileformat) ==
    [tree |-> EmptyTree(fileformat), status |-> 0, route |-> <<>>, closeidx |-> 0]

\* Event::Start appending the element with the label #
ReadStartFlat(P, e) ==
    LET node == SetAttrs([NewNode(e.name) EXCEPT !.idx = P.tree.count,
                                                 !.text = Some(<<>>)], e.attr)
    IN [P EXCEPT !.status = 1,
                 !.tree.data = Append(P.tree.data, node),
                 !.route = Append(P.route, P.tree.count),
                 !.tree.count = P.tree.count + 1]

\* Event::Start
ReadStart(P, e) ==
    LET node == SetAttrs([NewNode(e.name) EXCEPT !.idx = P.tree.count,
                                                 !.text = Some(<<>>),
                                                 !.route = P.route], e.attr)
    IN [P EXCEPT !.status = 1,
                 !.tree.data = Append(P.tree.data, node),
                 !.route = Append(P.route, P.tree.count),
                 !.tree.count = P.tree.count + 1]

\* Event::End
ReadEnd(P) ==
    IF P.route # <<>>
    THEN [P EXCEPT !.status = 2,
                   !.route = SubSeq(P.route, 1, Len(P.route) - 1),
                   !.closeidx = P.route[Len(P.route)]]
    ELSE [P EXCEPT !.status = 2]

\* Event::Empty
ReadEmpty(P, e) ==
    LET node == SetAttrs([NewNode(e.name) EXCEPT !.idx = P.tree.count,
                                                 !.route = P.route], e.attr)
    IN [P EXCEPT !.status = 2,
                 !.tree.data = Append(P.tree.data, node),
                 !.closeidx = P.tree.count,
                 !.tree.count = P.tree.count + 1]

\* Event::Text with the tail given to the entry appended last
ReadTextLast(P, e) ==
    IF P.tree.count - 1 >= 0 /\ P.tree.count - 1 < DataLen(P.tree)
    THEN IF P.status = 1
         THEN [P EXCEPT !.tree.data[P.tree.count].text = Some(e.s)]
         ELSE IF P.status = 2
              THEN [P EXCEPT !.tree.data[P.tree.count].tail = e.s]
              ELSE P
    ELSE P

\* Event::Text
ReadText(P, e) ==
    IF P.status = 1
    THEN IF P.tree.count - 1 >= 0 /\ P.tree.count - 1 < DataLen(P.tree)
         THEN [P EXCEPT !.tree.data[P.tree.count].text = Some(e.s)]
         ELSE P
    ELSE IF P.status = 2
         THEN IF P.closeidx < DataLen(P.tree)
              THEN [P EXCEPT !.tree.data[P.closeidx + 1].tail = e.s]
              ELSE P
         ELSE P

\* Event::Comment, Event::CData, Event::PI, Event::DocType
ReadLeaf(P, e) ==
    LET node == [NewNode(e.name) EXCEPT !.idx = P.tree.count,
                                        !.text = Some(e.s),
                                        !.route = P.route]
    IN [P EXCEPT !.status = 2,
                 !.tree.data = Append(P.tree.data, node),
                 !.closeidx = P.tree.count,
                 !.tree.count = P.tree.count + 1]

\* Event::Decl
ReadDecl(P, e) ==
    [P EXCEPT !.tree.version = e.decl.version,
              !.tree.encoding = IF e.decl.encoding.some THEN e.decl.encoding
                                ELSE P.tree.encoding,
              !.tree.standalone = IF e.decl.standalone.some THEN e.decl.standalone
                                  ELSE P.tree.standalone]

ReadEvent(P, e) ==
    CASE e.k = "Start" -> ReadStart(P, e)
      [] e.k = "End" -> ReadEnd(P)
      [] e.k = "Empty" -> ReadEmpty(P, e)
      [] e.k = "Text" -> ReadText(P, e)
      [] e.k = "Leaf" -> ReadLeaf(P, e)
      [] e.k = "Decl" -> ReadDecl(P, e)

RECURSIVE Read(_, _)
Read(P, events) ==
    IF events = <<>> THEN P ELSE Read(ReadEvent(P, Head(events)), Tail(events))

DetectIndent(T) ==
    LET real == {i \in 0..DataLen(T) - 1 : ~IsSynthetic(NodeAt(T, i).name)}
        idx == IF real = {} THEN 0 ELSE SetMax(real)
        previous == Previous(T, idx)
        parent == Parent(T, idx)
    IN IF previous # NoPos
       THEN IF StartsWith(NodeAt(T, previous).tail, NodeAt(T, idx).tail)
            THEN [tree |-> [T EXCEPT !.indent =
                      SubSeq(NodeAt(T, previous).tail, Len(NodeAt(T, idx).tail) + 1,
                             Len(NodeAt(T, previous).tail))],
                  fault |-> FALSE]
            ELSE [tree |-> T, fault |-> FALSE]
       ELSE IF parent # NoPos
            THEN IF ~NodeAt(T, parent).text.some
                 THEN [tree |-> T, fault |-> TRUE]
                 ELSE LET text == NodeAt(T, parent).text.s
                      IN IF StartsWith(text, NodeAt(T, idx).tail)
                         THEN [tree |-> [T EXCEPT !.indent =
                                   SubSeq(text, Len(NodeAt(T, idx).tail) + 1, Len(text))],
                               fault |-> FALSE]
                         ELSE [tree |-> T, fault |-> FALSE]
            ELSE [tree |-> T, fault |-> FALSE]

(***************************************************************************)
(* Mutation.  A prepare_* result is [ok, fault, tree, cell]: the cell is   *)
(* the ETreeNode whose idx is the slot, and tree is self after the call.   *)
(***************************************************************************)
NoCell(T) == [ok |-> FALSE, fault |-> FALSE, tree |-> T,
              cell |-> [idx |-> 0, tail |-> <<>>, route |-> <<>>]]

Panic(T) == [ok |-> FALSE, fault |-> TRUE, tree |-> T,
             cell |-> [idx |-> 0, tail |-> <<>>, route |-> <<>>]]

\* prepare_append_next leaving the tail of pos as it is
InheritTailNot(T, pos, prev, parent) == T

\* lines 757-763: pos takes the tail of its previous sibling or, without one,
\* the text of its parent
InheritTail(T, pos, prev, parent) ==
    IF prev # NoPos THEN SetTail(T, pos, NodeAt(T, prev).tail)
    ELSE IF parent # NoPos THEN SetTail(T, pos, NodeAt(T, parent).text.s)
    ELSE T

PrepareAppendNext(T, pos) ==
    IF pos >= DataLen(T) THEN NoCell(T)
    ELSE LET prev == Previous(T, pos)
             parent == Parent(T, pos)
         IN IF prev = NoPos /\ parent # NoPos /\ ~NodeAt(T, parent).text.some
            THEN Panic(T)
            ELSE LET T1 == InheritTail(T, pos, prev, parent)
                     offspring == Descendant(T1, pos)
                     newpos == IF Len(offspring) = 0 THEN pos + 1
                               ELSE offspring[Len(offspring)] + 1
                 IN [ok |-> TRUE, fault |-> FALSE, tree |-> T1,
                     cell |-> [idx |-> newpos, tail |-> NodeAt(T, pos).tail,
                               route |-> NodeAt(T, pos).route]]

PrepareAppendPrevious(T, pos) ==
    IF pos >= DataLen(T) THEN NoCell(T)
    ELSE LET prev == Previous(T, pos)
             parent == Parent(T, pos)
         IN IF prev # NoPos THEN PrepareAppendNext(T, prev)
            ELSE IF parent # NoPos
                 THEN IF ~NodeAt(T, parent).text.some THEN Panic(T)
                      ELSE [ok |-> TRUE, fault |-> FALSE, tree |-> T,
                            cell |-> [idx |-> parent + 1,
                                      tail |-> NodeAt(T, parent).text.s,
                                      route |-> ChildRoute(T, parent)]]
                 ELSE NoCell(T)

\* the text of pos left as it was
FirstChildTextNever(T, pos, text) == T

\* the text of pos rewritten whatever it was
FirstChildTextAlways(T, pos, text) == SetText(T, pos, text)

\* lines 797-801: the text of pos is rewritten when it is absent or empty
FirstChildText(T, pos, text) ==
    IF ~NodeAt(T, pos).text.some THEN SetText(T, pos, text)
    ELSE IF NodeAt(T, pos).text.s = <<>> THEN SetText(T, pos, text)
    ELSE T

PrepareAppendChild(T, pos) ==
    IF pos >= DataLen(T) THEN NoCell(T)
    ELSE LET children == Children(T, pos)
         IN IF Len(children) = 0
            THEN LET previous == Previous(T, pos)
                     parent == Parent(T, pos)
                     tail == IF previous # NoPos THEN NodeAt(T, previous).tail
                             ELSE IF parent # NoPos THEN NodeAt(T, parent).tail
                                  ELSE T.crlf
                     text == tail \o T.indent
                     T1 == FirstChildText(T, pos, text)
                 IN [ok |-> TRUE, fault |-> FALSE, tree |-> T1,
                     cell |-> [idx |-> pos + 1, tail |-> tail,
                               route |-> ChildRoute(T, pos)]]
            ELSE LET previous == children[Len(children)]
                     previous2 == Previous(T, previous)
                     parent == Parent(T, previous)
                 IN IF previous2 = NoPos /\ parent = NoPos THEN Panic(T)
                    ELSE LET T1 == IF previous2 # NoPos
                                   THEN SetTail(T, previous, NodeAt(T, previous2).tail)
                                   ELSE SetTail(T, previous, NodeAt(T, parent).tail)
                             offspring == Descendant(T1, pos)
                         IN [ok |-> TRUE, fault |-> FALSE, tree |-> T1,
                             cell |-> [idx |-> offspring[Len(offspring)] + 1,
                                       tail |-> NodeAt(T, previous).tail,
                                       route |-> ChildRoute(T, pos)]]

\* the shared second half of append_*_node; the result is [tree, ret, fault]
CommitNode(R, node) ==
    IF R.fault THEN [tree |-> R.tree, ret |-> NoPos, fault |-> TRUE]
    ELSE IF ~R.ok THEN [tree |-> R.tree, ret |-> NoPos, fault |-> FALSE]
    ELSE LET T == R.tree
             n == [node EXCEPT !.idx = T.count, !.tail = R.cell.tail,
                               !.route = R.cell.route]
             U == [T EXCEPT !.data = InsertAt(T.data, R.cell.idx, n),
                            !.index = IndexInsert(T.index, T.count, R.cell.idx)]
         IN [tree |-> [UpdateIndex(U, R.cell.idx + 1) EXCEPT !.count = T.count + 1],
             ret |-> R.cell.idx, fault |-> FALSE]

AppendPreviousNode(T, pos, node) == CommitNode(PrepareAppendPrevious(T, pos), node)

AppendNextNode(T, pos, node) == CommitNode(PrepareAppendNext(T, pos), node)

AppendChildNode(T, pos, node) == CommitNode(PrepareAppendChild(T, pos), node)

(***************************************************************************)
(* subtree_reindex.  str::replace("#old#", "#new#") on a route: matches do *)
(* not overlap, so the segment after a replaced one, whose leading '#' the *)
(* match has consumed, is never replaced.                                  *)
(***************************************************************************)
RECURSIVE ReplaceFrom(_, _, _, _)
ReplaceFrom(route, old, new, consumed) ==
    IF route = <<>> THEN <<>>
    ELSE IF Head(route) = old /\ ~consumed
         THEN <<new>> \o ReplaceFrom(Tail(route), old, new, TRUE)
         ELSE <<Head(route)>> \o ReplaceFrom(Tail(route), old, new, FALSE)

RouteReplace(route, old, new) == ReplaceFrom(route, old, new, FALSE)

RECURSIVE ReindexLoop(_, _, _)
ReindexLoop(data, i, idx_cur) ==
    IF i > Len(data) THEN data
    ELSE LET idx_old == data[i].idx
             renamed == [data EXCEPT ![i].idx = idx_cur]
             rerouted == [j \in 1..Len(data) |->
                            [renamed[j] EXCEPT !.route =
                                RouteReplace(renamed[j].route, idx_old, idx_cur)]]
         IN ReindexLoop(rerouted, i + 1, idx_cur + 1)

\* the result is [tree, startidx, endidx]
SubtreeReindex(T, start_idx) ==
    LET datacnt == DataLen(T)
    IN IF datacnt > 0
       THEN LET ids == {T.data[i].idx : i \in 1..datacnt}
                idx_min == SetMin(ids)
                idx_max == SetMax(ids)
            IN IF (start_idx + datacnt <= idx_min) \/ (start_idx > idx_max)
               THEN [tree |-> [T EXCEPT !.data = ReindexLoop(T.data, 1, start_idx)],
                     startidx |-> start_idx, endidx |-> start_idx + datacnt]
               ELSE [tree |-> T, startidx |-> idx_max + datacnt + 1,
                     endidx |-> idx_max + datacnt * 2 + 1]
       ELSE [tree |-> T, startidx |-> 0, endidx |-> 0]

RECURSIVE InsertBlock(_, _, _)
InsertBlock(data, at, block) ==
    IF block = <<>> THEN data
    ELSE InsertBlock(InsertAt(data, at, Head(block)), at + 1, Tail(block))

\* self.index.insert(tree.data[i].get_idx(), cell.get_idx() + i) for each i
RECURSIVE IndexBlock(_, _, _)
IndexBlock(index, at, block) ==
    IF block = <<>> THEN index
    ELSE IndexBlock(IndexInsert(index, Head(block).idx, at), at + 1, Tail(block))

\* the shared second half of append_*_tree; the result is [tree, ret, fault]
CommitTree(R, tree) ==
    IF R.fault THEN [tree |-> R.tree, ret |-> NoPos, fault |-> TRUE]
    ELSE IF ~R.ok THEN [tree |-> R.tree, ret |-> NoPos, fault |-> FALSE]
    ELSE LET T == R.tree
             first == SubtreeReindex(tree, T.count)
             second == SubtreeReindex(first.tree, first.startidx)
             third == SubtreeReindex(second.tree, T.count)
             incoming == IF first.startidx = T.count THEN first.tree ELSE third.tree
             count == IF first.startidx = T.count THEN first.endidx ELSE third.endidx
         IN IF DataLen(incoming) = 0
            THEN [tree |-> [T EXCEPT !.count = count], ret |-> NoPos, fault |-> TRUE]
            ELSE LET block == [i \in 1..DataLen(incoming) |->
                                 [incoming.data[i] EXCEPT
                                    !.tail = IF i = 1 THEN R.cell.tail ELSE @,
                                    !.route = R.cell.route \o @]]
                     U == [T EXCEPT !.data = InsertBlock(T.data, R.cell.idx, block),
                                    !.index = IndexBlock(T.index, R.cell.idx, block),
                                    !.count = count]
                 IN [tree |-> UpdateIndex(U, R.cell.idx + Len(block)),
                     ret |-> R.cell.idx, fault |-> FALSE]

AppendPreviousTree(T, pos, tree) == CommitTree(PrepareAppendPrevious(T, pos), tree)

AppendNextTree(T, pos, tree) == CommitTree(PrepareAppendNext(T, pos), tree)

AppendChildTree(T, pos, tree) == CommitTree(PrepareAppendChild(T, pos), tree)

\* remove deleting the entry at pos and leaving its descendants
RemoveAlone(T, pos) ==
    IF pos >= DataLen(T) THEN [tree |-> T, fault |-> TRUE]
    ELSE [tree |-> [T EXCEPT !.data = SubSeq(T.data, 1, pos) \o
                                       SubSeq(T.data, pos + 2, Len(T.data))],
          fault |-> FALSE]

\* the result is [tree, fault]
Remove(T, pos) ==
    IF pos >= DataLen(T) THEN [tree |-> T, fault |-> TRUE]
    ELSE LET previous == Previous(T, pos)
             next == Next(T, pos)
             parent == Parent(T, pos)
             offspring == Descendant(T, pos)
             gone == {NodeAt(T, i).idx : i \in pos..pos + Len(offspring)}
             cut(U) == UpdateIndex([U EXCEPT !.data = SubSeq(U.data, 1, pos) \o
                                                     SubSeq(U.data, pos + Len(offspring) + 2,
                                                            Len(U.data)),
                                             !.index = IndexRemove(U.index, gone)], pos)
         IN IF previous # NoPos
            THEN [tree |-> cut(SetTail(T, previous, NodeAt(T, pos).tail)),
                  fault |-> FALSE]
            ELSE IF next # NoPos THEN [tree |-> cut(T), fault |-> FALSE]
            ELSE IF parent # NoPos
                 THEN IF ~NodeAt(T, parent).text.some
                      THEN [tree |-> T, fault |-> TRUE]
                      ELSE LET text == NodeAt(T, parent).text.s
                           IN IF EndsWith(text, T.indent)
                              THEN [tree |-> cut(SetText(T, parent,
                                        SubSeq(text, 1, Len(text) - Len(T.indent)))),
                                    fault |-> FALSE]
                              ELSE [tree |-> cut(T), fault |-> FALSE]
                 ELSE [tree |-> cut(T), fault |-> FALSE]

\* subtree cloning the node of pos without its descendants
SubtreeNodeOnly(T, pos) ==
    IF pos >= DataLen(T) THEN [tree |-> T, fault |-> TRUE]
    ELSE [tree |-> [T EXCEPT !.count = 0, !.enable_index = FALSE, !.index = {},
                             !.data = <<[T.data[pos + 1] EXCEPT !.route = <<>>]>>],
          fault |-> FALSE]

\* the result is [tree, fault]
Subtree(T, pos) ==
    IF pos >= DataLen(T) THEN [tree |-> T, fault |-> TRUE]
    ELSE LET offspring == Descendant(T, pos)
             base == Len(NodeAt(T, pos).route)
             rebase(node) == [node EXCEPT !.route = SubSeq(@, base + 1, Len(@))]
         IN [tree |-> [T EXCEPT !.count = 0, !.enable_index = FALSE, !.index = {},
                                !.data = [i \in 1..Len(offspring) + 1 |->
                                            rebase(T.data[pos + i])]],
             fault |-> FALSE]

From(node) ==
    [indent |-> <<>>, count |-> 1, version |-> "1.0", encoding |-> NoneB,
     standalone |-> NoneB,
     data |-> <<[node EXCEPT !.idx = 0, !.route = <<>>]>>, crlf |-> <<>>,
     enable_index |-> FALSE, index |-> {}]

(***************************************************************************)
(* The serializer.  ETree::write hands events to the quick_xml Writer; the *)
(* model keeps the sequence of events written.  The result is [out, fault].*)
(***************************************************************************)
\* idxmap: each identity's position, a later entry replacing an earlier one
IdxMap(T, id) ==
    LET hits == {i \in 0..DataLen(T) - 1 : NodeAt(T, i).idx = id}
    IN IF hits = {} THEN NoPos ELSE SetMax(hits)

\* the End event of an element without the tail after it
CloseNodeNoTail(node) ==
    IF IsSynthetic(node.name) THEN <<>> ELSE <<Ev("End", node.name, <<>>, <<>>)>>

\* the End event of an element (none for a synthetic node) and its tail
CloseNode(node) ==
    IF IsSynthetic(node.name) THEN <<Ev("Text", "", <<>>, node.tail)>>
    ELSE <<Ev("End", node.name, <<>>, <<>>), Ev("Text", "", <<>>, node.tail)>>

\* the close tag and the tail written for a node without a text too
CloseAlways(node) == CloseNode(node)

CloseIfText(node) == IF node.text.some THEN CloseNode(node) ELSE <<>>

\* the loop left after its first iteration
CloseChainOnce(T, route, stop) ==
    IF route = <<>> THEN [out |-> <<>>, fault |-> FALSE]
    ELSE LET closeidx == IdxMap(T, route[Len(route)])
         IN IF closeidx = NoPos THEN [out |-> <<>>, fault |-> TRUE]
            ELSE [out |-> CloseNode(NodeAt(T, closeidx)), fault |-> FALSE]

\* the while loops of lines 640-653 and 697-710: close the tags of route,
\* innermost first, until route is stop
RECURSIVE CloseChain(_, _, _)
CloseChain(T, route, stop) ==
    IF route = <<>> THEN [out |-> <<>>, fault |-> FALSE]
    ELSE LET closeidx == IdxMap(T, route[Len(route)])
             up == SubSeq(route, 1, Len(route) - 1)
         IN IF closeidx = NoPos THEN [out |-> <<>>, fault |-> TRUE]
            ELSE IF up = stop
                 THEN [out |-> CloseNode(NodeAt(T, closeidx)), fault |-> FALSE]
                 ELSE LET rest == CloseChain(T, up, stop)
                      IN [out |-> CloseNode(NodeAt(T, closeidx)) \o rest.out,
                          fault |-> rest.fault]

\* lines 616-657: what is written between entry idx - 1 and entry idx
WriteBetween(T, idx) ==
    LET prev == NodeAt(T, idx - 1)
        cur == NodeAt(T, idx)
    IN IF cur.route = prev.route
       THEN [out |-> CloseIfText(prev), fault |-> FALSE]
       ELSE IF StartsWith(cur.route, prev.route)
            THEN [out |-> <<>>, fault |-> FALSE]
            ELSE IF StartsWith(prev.route, cur.route)
                 THEN LET chain == CloseChain(T, prev.route, cur.route)
                      IN [out |-> CloseIfText(prev) \o chain.out,
                          fault |-> chain.fault]
                 ELSE [out |-> <<>>, fault |-> TRUE]

\* lines 658-685: the entry itself
WriteNode(node) ==
    IF IsSynthetic(node.name)
    THEN IF node.text.some
         THEN [out |-> <<Ev("Leaf", node.name, <<>>, node.text.s)>>, fault |-> FALSE]
         ELSE [out |-> <<>>, fault |-> TRUE]
    ELSE IF node.text.some
         THEN [out |-> <<Ev("Start", node.name, node.attr, <<>>),
                         Ev("Text", "", <<>>, node.text.s)>>, fault |-> FALSE]
         ELSE [out |-> <<Ev("Empty", node.name, node.attr, <<>>),
                         Ev("Text", "", <<>>, node.tail)>>, fault |-> FALSE]

RECURSIVE WriteLoop(_, _)
WriteLoop(T, idx) ==
    IF idx >= DataLen(T) THEN [out |-> <<>>, fault |-> FALSE]
    ELSE LET between == IF idx > 0 THEN WriteBetween(T, idx)
                        ELSE [out |-> <<>>, fault |-> FALSE]
             node == WriteNode(NodeAt(T, idx))
         IN IF between.fault THEN [out |-> between.out, fault |-> TRUE]
            ELSE IF node.fault THEN [out |-> between.out, fault |-> TRUE]
            ELSE LET rest == WriteLoop(T, idx + 1)
                 IN [out |-> between.out \o node.out \o rest.out,
                     fault |-> rest.fault]

Write(T) ==
    LET head == <<EvDeclOf(T.version, T.encoding, T.standalone),
                  Ev("Text", "", <<>>, T.crlf)>>
        body == WriteLoop(T, 0)
        nodelen == DataLen(T)
    IN IF body.fault \/ nodelen = 0 THEN [out |-> head \o body.out, fault |-> TRUE]
       ELSE LET lastnode == NodeAt(T, nodelen - 1)
                chain == CloseChain(T, lastnode.route, <<>>)
            IN [out |-> head \o body.out \o CloseIfText(lastnode) \o chain.out,
                fault |-> chain.fault]

(***************************************************************************)
(* The tokenizer seen from the parser: the bytes the Writer produced are   *)
(* read back as events.  Text written as the empty string leaves no bytes, *)
(* and texts written one after the other come back as one Text event.      *)
(***************************************************************************)
RECURSIVE Tokenize(_)
Tokenize(events) ==
    IF events = <<>> THEN <<>>
    ELSE LET e == Head(events)
             rest == Tokenize(Tail(events))
         IN IF e.k = "Text" /\ e.s = <<>> THEN rest
            ELSE IF e.k = "Text" /\ rest # <<>> /\ Head(rest).k = "Text"
                 THEN <<Ev("Text", "", <<>>, e.s \o Head(rest).s)>> \o Tail(rest)
                 ELSE <<e>> \o rest

ContainsCrLf(str) == \E i \in 1..Len(str) - 1 : str[i] = "r" /\ str[i + 1] = "n"

\* parse_str, lines 39-43: the newline convention of the content
FileFormat(events) ==
    IF \E i \in 1..Len(events) : ContainsCrLf(events[i].s)
    THEN <<"r", "n">> ELSE <<"n">>

\* parse_str: read, then detect_indent; the result is [tree, fault]
ParseStr(events) ==
    DetectIndent(Read(ReaderInit(FileFormat(events)), events).tree)

(***************************************************************************)
(* pretty.                                                                 *)
(***************************************************************************)
\* str::lines: split at "\n", a "\r" before it dropped with it; a final
\* empty line is not a line
RECURSIVE SplitLines(_, _)
SplitLines(str, cur) ==
    IF str = <<>> THEN IF cur = <<>> THEN <<>> ELSE <<cur>>
    ELSE IF Head(str) = "n"
         THEN <<IF cur # <<>> /\ cur[Len(cur)] = "r"
                THEN SubSeq(cur, 1, Len(cur) - 1) ELSE cur>>
              \o SplitLines(Tail(str), <<>>)
         ELSE SplitLines(Tail(str), Append(cur, Head(str)))

Lines(str) == SplitLines(str, <<>>)

\* the result is [tree, fault]
SetIndent(T, indent) ==
    LET lines == Lines(indent)
        crlf == IF Len(lines) >= 2 /\ Len(lines[Len(lines)]) > 0
                THEN IF ContainsCrLf(indent) THEN <<"r", "n">>
                     ELSE IF \E i \in 1..Len(indent) : indent[i] = "n" THEN <<"n">>
                          ELSE <<"r">>
                ELSE <<"n">>
    IN IF Len(lines) = 0 THEN [tree |-> [T EXCEPT !.crlf = crlf], fault |-> TRUE]
       ELSE [tree |-> [T EXCEPT !.crlf = crlf, !.indent = lines[Len(lines)]],
             fault |-> FALSE]

\* the text of a node with children, its old text not trimmed
PrettyTextNoTrim(T, text, level) == text \o T.crlf \o Repeat(T.indent, level + 1)

\* lines 875-878: the text of a node with children
PrettyText(T, text, level) == Trim(text) \o T.crlf \o Repeat(T.indent, level + 1)

RECURSIVE PrettyTree(_, _, _)
RECURSIVE PrettyChildren(_, _, _)
\* the for loop of pretty_tree over children
PrettyChildren(R, children, level) ==
    IF children = <<>> \/ R.fault THEN R
    ELSE PrettyChildren(PrettyTree(R.tree, Head(children), level), Tail(children), level)

\* the result is [tree, fault]
PrettyTree(T, pos, level) ==
    IF pos >= DataLen(T) THEN [tree |-> T, fault |-> TRUE]
    ELSE LET tail == T.crlf \o Repeat(T.indent, level)
             T1 == SetTail(T, pos, tail)
             children == Children(T1, pos)
             node == NodeAt(T1, pos)
         IN IF Len(children) > 0
            THEN IF ~node.text.some THEN [tree |-> T1, fault |-> TRUE]
                 ELSE LET text == PrettyText(T, node.text.s, level)
                          R == PrettyChildren([tree |-> SetText(T1, pos, text),
                                               fault |-> FALSE], children, level + 1)
                      IN IF R.fault THEN R
                         ELSE [tree |-> SetTail(R.tree, children[Len(children)], tail),
                               fault |-> FALSE]
            ELSE IF ~IsSynthetic(node.name)
                 THEN IF ~node.text.some THEN [tree |-> T1, fault |-> TRUE]
                      ELSE [tree |-> SetText(T1, pos, Trim(node.text.s)), fault |-> FALSE]
                 ELSE [tree |-> T1, fault |-> FALSE]

\* the result is [tree, fault]
Pretty(T, indent) ==
    LET S == SetIndent(T, indent)
    IN IF S.fault THEN S
       ELSE LET idx == Root(S.tree)
                T1 == [S.tree EXCEPT !.data =
                          [i \in 1..Len(S.tree.data) |->
                              IF i <= idx THEN [S.tree.data[i] EXCEPT !.tail = S.tree.crlf]
                              ELSE S.tree.data[i]]]
            IN PrettyTree(T1, idx, 0)

(***************************************************************************)
(* XPath.  A path, a predicate and the expression handed to eval are       *)
(* strings: sequences of characters, a blank being " ".  An element or     *)
(* attribute name is one character long, so that a node's name n is the    *)
(* string <<n>>; attribute values and texts of a queried document are      *)
(* strings of this kind as well.                                           *)
(***************************************************************************)
IsSpace(c) == c = " "

\* \w of the regex crate, over the characters the paths are written in
IsWord(c) ==
    c \notin {" ", "'", "\"", "=", "@", "(", ")", "[", "]", "/", ".", "*", "&", "|",
              "!", "<", ">", "-", "\\"}

IsDigit(c) == c \in {"0", "1", "2", "3", "4", "5", "6", "7", "8", "9"}

\* format!("{}", n) for a usize
RECURSIVE Digits(_)
Digits(n) ==
    LET d == <<"0", "1", "2", "3", "4", "5", "6", "7", "8", "9">>[(n % 10) + 1]
    IN IF n < 10 THEN <<d>> ELSE Digits(n \div 10) \o <<d>>

\* format!("'{}'", v)
Quoted(v) == <<"'">> \o v \o <<"'">>

\* the one-character name a string spells, "" when it spells none
Named(str) == IF Len(str) = 1 THEN str[1] ELSE ""

\* str::replace: the matches of pat from left to right, not overlapping
RECURSIVE StrReplace(_, _, _)
StrReplace(str, pat, rep) ==
    IF Len(str) < Len(pat) THEN str
    ELSE IF StartsWith(str, pat)
         THEN rep \o StrReplace(SubSeq(str, Len(pat) + 1, Len(str)), pat, rep)
         ELSE <<Head(str)>> \o StrReplace(Tail(str), pat, rep)

\* Regex \bword\b replace_all; prev tells that the character before str is
\* a word character
RECURSIVE WordReplace(_, _, _, _)
WordReplace(str, word, rep, prev) ==
    IF str = <<>> THEN <<>>
    ELSE IF /\ ~prev
            /\ StartsWith(str, word)
            /\ (Len(str) = Len(word) \/ ~IsWord(str[Len(word) + 1]))
         THEN rep \o WordReplace(SubSeq(str, Len(word) + 1, Len(str)), word, rep, TRUE)
         ELSE <<Head(str)>> \o WordReplace(Tail(str), word, rep, IsWord(Head(str)))

\* lines 1132-1135: the predicate rewritten for eval
PredicateExpr(predicate) ==
    LET anded == WordReplace(predicate, <<"a", "n", "d">>, <<"&", "&">>, FALSE)
        ored == WordReplace(anded, <<"o", "r">>, <<"|", "|">>, FALSE)
        doubled == StrReplace(ored, <<"=">>, <<"=", "=">>)
        ne == StrReplace(doubled, <<"!", "=", "=">>, <<"!", "=">>)
        ge == StrReplace(ne, <<">", "=", "=">>, <<">", "=">>)
    IN StrReplace(ge, <<"<", "=", "=">>, <<"<", "=">>)

\* line 1136, the regex
\*   ((?P<attr>@\S+?)|(?P<func>\S+?\s*\(\s*\))|(?P<tag>\S+?))\s*=
\* tried at character s of expr: the alternatives in their order, each with
\* the shortest \S+? that lets the rest match.  The result is the group
\* matched, its text and the character after the match (kind "none": no
\* match at s).
ParamAt(expr, s) ==
    LET len == Len(expr)
        Skip(i) == SetMin({j \in i..len + 1 : j = len + 1 \/ ~IsSpace(expr[j])})
        Is(i, c) == i <= len /\ expr[i] = c
        \* the "=" that \s*= reaches from character i, 0 when there is none
        Eq(i) == IF Is(Skip(i), "=") THEN Skip(i) ELSE 0
        \* the ")" that \s*\(\s*\) reaches from character i
        Call(i) ==
            IF Is(Skip(i), "(") /\ Is(Skip(Skip(i) + 1), ")")
            THEN Skip(Skip(i) + 1) ELSE 0
        run == {e \in s..len : \A k \in s..e : ~IsSpace(expr[k])}
        attr == {e \in run : e > s /\ expr[s] = "@" /\ Eq(e + 1) # 0}
        func == {e \in run : Call(e + 1) # 0 /\ Eq(Call(e + 1) + 1) # 0}
        tag == {e \in run : Eq(e + 1) # 0}
    IN IF attr # {}
       THEN [kind |-> "attr", text |-> SubSeq(expr, s, SetMin(attr)),
             next |-> Eq(SetMin(attr) + 1) + 1]
       ELSE IF func # {}
            THEN [kind |-> "func", text |-> SubSeq(expr, s, Call(SetMin(func) + 1)),
                  next |-> Eq(Call(SetMin(func) + 1) + 1) + 1]
            ELSE IF tag # {}
                 THEN [kind |-> "tag", text |-> SubSeq(expr, s, SetMin(tag)),
                       next |-> Eq(SetMin(tag) + 1) + 1]
                 ELSE [kind |-> "none", text |-> <<>>, next |-> s + 1]

\* re.captures_iter(&expr): the matches from left to right, not overlapping
RECURSIVE Captures(_, _)
Captures(expr, s) ==
    IF s > Len(expr) THEN <<>>
    ELSE LET m == ParamAt(expr, s)
         IN IF m.kind = "none" THEN Captures(expr, s + 1)
            ELSE <<m>> \o Captures(expr, m.next)

\* lines 1140-1157: the texts of one group, each once, in the order found
RECURSIVE ParamsOf(_, _, _)
ParamsOf(captures, kind, seen) ==
    IF captures = <<>> THEN seen
    ELSE LET m == Head(captures)
             known == \E i \in 1..Len(seen) : seen[i] = m.text
         IN ParamsOf(Tail(captures), kind,
                     IF m.kind = kind /\ ~known THEN Append(seen, m.text) ELSE seen)

\* eval's lexer on quoted strings, numbers and the operators ==, && and ||;
\* a token of kind "other" stands for the rest of an expression that holds
\* anything else
RECURSIVE Lex(_)
Lex(str) ==
    IF str = <<>> THEN <<>>
    ELSE LET c == Head(str)
             closing == {i \in 2..Len(str) : str[i] = "'"}
             digits == SetMax({e \in 1..Len(str) : \A k \in 1..e : IsDigit(str[k])})
         IN IF IsSpace(c) THEN Lex(Tail(str))
            ELSE IF c = "'" /\ closing # {}
                 THEN <<[k |-> "string", v |-> SubSeq(str, 2, SetMin(closing) - 1)]>>
                      \o Lex(SubSeq(str, SetMin(closing) + 1, Len(str)))
            ELSE IF IsDigit(c)
                 THEN <<[k |-> "number", v |-> SubSeq(str, 1, digits)]>>
                      \o Lex(SubSeq(str, digits + 1, Len(str)))
            ELSE IF Len(str) >= 2
                    /\ SubSeq(str, 1, 2) \in {<<"=", "=">>, <<"&", "&">>, <<"|", "|">>}
                 THEN <<[k |-> "operator", v |-> SubSeq(str, 1, 2)]>>
                      \o Lex(SubSeq(str, 3, Len(str)))
            ELSE <<[k |-> "other", v |-> <<>>]>>

\* the token sequences between the tokens op
RECURSIVE SplitTokens(_, _, _)
SplitTokens(tokens, op, cur) ==
    IF tokens = <<>> THEN <<cur>>
    ELSE IF Head(tokens) = [k |-> "operator", v |-> op]
         THEN <<cur>> \o SplitTokens(Tail(tokens), op, <<>>)
         ELSE SplitTokens(Tail(tokens), op, Append(cur, Head(tokens)))

\* eval::eval(expr) == Ok(eval::to_value(true)) for an expression made of
\* comparisons literal == literal joined by && and ||; any other expression
\* the predicates of this model lead to is an error (a call of a function
\* eval does not know) or a value that is not a boolean (a number alone)
Eval(expr) ==
    LET Literal(tok) == tok.k \in {"string", "number"}
        Comparison(part) ==
            /\ Len(part) = 3
            /\ Literal(part[1]) /\ Literal(part[3])
            /\ part[2] = [k |-> "operator", v |-> <<"=", "=">>]
        ors == SplitTokens(Lex(expr), <<"|", "|">>, <<>>)
        Ands(i) == SplitTokens(ors[i], <<"&", "&">>, <<>>)
    IN /\ \A i \in 1..Len(ors) : \A j \in 1..Len(Ands(i)) : Comparison(Ands(i)[j])
       /\ \E i \in 1..Len(ors) : \A j \in 1..Len(Ands(i)) : Ands(i)[j][1] = Ands(i)[j][3]

\* get_text().unwrap_or("".to_string())
TextOr(node) == IF node.text.some THEN node.text.s ELSE <<>>

\* lines 1162-1169: each attribute parameter replaced by the candidate's
\* value in quotes; found is FALSE when the candidate has no such attribute
RECURSIVE SubstAttrs(_, _, _)
SubstAttrs(node, cur_expr, params) ==
    IF params = <<>> THEN [found |-> TRUE, expr |-> cur_expr]
    ELSE LET k == FindAttr(node.attr, Named(Tail(Head(params))))
         IN IF k = 0 THEN [found |-> FALSE, expr |-> cur_expr]
            ELSE SubstAttrs(node,
                            StrReplace(cur_expr, Head(params), Quoted(node.attr[k][2])),
                            Tail(params))

\* lines 1173-1181: text(), position() and last() replaced for candidate i
\* of container_len
RECURSIVE SubstFuncs(_, _, _, _, _)
SubstFuncs(node, cur_expr, params, i, container_len) ==
    IF params = <<>> THEN cur_expr
    ELSE LET param == Head(params)
             value ==
                 IF StartsWith(param, <<"t", "e", "x", "t">>) THEN Quoted(TextOr(node))
                 ELSE IF StartsWith(param, <<"p", "o", "s", "i", "t", "i", "o", "n">>)
                      THEN Digits(i + 1)
                      ELSE Digits(container_len)
             known == \/ StartsWith(param, <<"t", "e", "x", "t">>)
                      \/ StartsWith(param, <<"p", "o", "s", "i", "t", "i", "o", "n">>)
                      \/ StartsWith(param, <<"l", "a", "s", "t">>)
         IN SubstFuncs(node,
                       IF known THEN StrReplace(cur_expr, param, value) ELSE cur_expr,
                       Tail(params), i, container_len)

\* lines 1202-1206: each child-tag parameter replaced by the text of the
\* child chosen for it
RECURSIVE SubstTags(_, _, _, _, _)
SubstTags(T, cur_expr, params, chosen, subj) ==
    IF subj > Len(params) THEN cur_expr
    ELSE SubstTags(T,
                   StrReplace(cur_expr, params[subj],
                              Quoted(TextOr(NodeAt(T, chosen[subj])))),
                   params, chosen, subj + 1)

\* lines 1182-1235: the candidate is pushed when eval gives true, with
\* child-tag parameters when it does so for one combination of the children
\* named by them
Selected(T, cand, cur_expr, params_tag) ==
    IF params_tag = <<>> THEN Eval(cur_expr)
    ELSE LET subchildren == Children(T, cand)
             subfound(subj) ==
                 {subchildren[k] : k \in {k \in 1..Len(subchildren) :
                      NodeAt(T, subchildren[k]).name = Named(params_tag[subj])}}
             all == UNION {subfound(subj) : subj \in 1..Len(params_tag)}
         IN /\ \A subj \in 1..Len(params_tag) : subfound(subj) # {}
            /\ \E curcomb \in [1..Len(params_tag) -> all] :
                  /\ \A subj \in 1..Len(params_tag) : curcomb[subj] \in subfound(subj)
                  /\ Eval(SubstTags(T, cur_expr, params_tag, curcomb, 1))

\* lines 1158-1236: the loop over the candidates, from candidate i (counted
\* from 0) on; a candidate without an attribute the predicate names ends it
RECURSIVE PredicateLoop(_, _, _, _)
PredicateLoop(T, container, expr, i) ==
    IF i >= Len(container) THEN <<>>
    ELSE LET captures == Captures(expr, 1)
             node == NodeAt(T, container[i + 1])
             A == SubstAttrs(node, expr, ParamsOf(captures, "attr", <<>>))
             cur_expr == SubstFuncs(node, A.expr, ParamsOf(captures, "func", <<>>),
                                    i, Len(container))
         IN IF ~A.found THEN <<>>
            ELSE (IF Selected(T, container[i + 1], cur_expr,
                              ParamsOf(captures, "tag", <<>>))
                  THEN <<container[i + 1]>> ELSE <<>>)
                 \o PredicateLoop(T, container, expr, i + 1)

\* keeps the positions of seq whose node passes Test
KeepNodes(T, seq, Test(_)) ==
    LET Passes(pos) == Test(NodeAt(T, pos)) IN SelectSeq(seq, Passes)

\* XPathIterator::_find
Find(T, path, pos) ==
    IF path = <<"/", ".">> THEN <<pos>>
    ELSE IF path = <<"/", ".", ".">>
         THEN IF Parent(T, pos) # NoPos THEN <<Parent(T, pos)>> ELSE <<>>
    ELSE
      \* ^(/+)(.+)$
      LET slashes == SetMax({k \in 0..SetMax({0, Len(path) - 1}) :
                                \A i \in 1..k : path[i] = "/"})
          m2 == SubSeq(path, slashes + 1, Len(path))
          container == IF slashes = 2 THEN Descendant(T, pos) ELSE Children(T, pos)
          \* ^(.+?)(?:\[(.+?)\])?$
          opens == {k \in 2..Len(m2) - 2 : m2[k] = "[" /\ m2[Len(m2)] = "]"}
          tag == IF opens = {} THEN m2 ELSE SubSeq(m2, 1, SetMin(opens) - 1)
          HasAttrs(node) == Len(node.attr) > 0
          HasAttr(node) == FindAttr(node.attr, Named(Tail(m2))) # 0
          HasName(node) == node.name = Named(tag)
          named == KeepNodes(T, container, HasName)
      IN IF slashes = 0 THEN <<>>
         ELSE IF Head(m2) = "@"
              THEN IF Tail(m2) = <<"*">> THEN KeepNodes(T, container, HasAttrs)
                   ELSE KeepNodes(T, container, HasAttr)
         ELSE IF opens = {} THEN named
         ELSE PredicateLoop(T, named,
                            PredicateExpr(SubSeq(m2, SetMin(opens) + 1, Len(m2) - 1)), 0)

\* lines 1013-1059: the scan of XPathIterator::new for the characters "/"
\* outside quotes and brackets, from character i on; S holds escaped, the
\* two stacks and split_pos, and fault for the panic of stack2[len - 1] on
\* an empty stack
RECURSIVE SplitScan(_, _, _)
SplitScan(path, i, S) ==
    IF i > Len(path) \/ S.fault THEN S
    ELSE LET c == path[i]
             top(stack) == stack[Len(stack)]
             pop(stack) == SubSeq(stack, 1, Len(stack) - 1)
         IN SplitScan(path, i + 1,
              IF S.escaped THEN [S EXCEPT !.escaped = FALSE]
              ELSE IF c = "\\" THEN [S EXCEPT !.escaped = TRUE]
              ELSE IF c \in {"'", "\""}
                   THEN IF S.stack1 # <<>> /\ top(S.stack1) = c
                        THEN [S EXCEPT !.stack1 = pop(@)]
                        ELSE [S EXCEPT !.stack1 = Append(@, c)]
              ELSE IF S.stack1 # <<>> THEN S
              ELSE IF c = "[" THEN [S EXCEPT !.stack2 = Append(@, c)]
              ELSE IF c = "]"
                   THEN IF S.stack2 = <<>> THEN [S EXCEPT !.fault = TRUE]
                        ELSE IF top(S.stack2) = "[" THEN [S EXCEPT !.stack2 = pop(@)]
                        ELSE [S EXCEPT !.stack2 = Append(@, c)]
              ELSE IF c = "/" /\ S.stack2 = <<>>
                   THEN IF S.split_pos = <<>> \/ top(S.split_pos) + 1 < i
                        THEN [S EXCEPT !.split_pos = Append(@, i)]
                        ELSE S
              ELSE S)

\* XPathIterator::new taking a bare leading name for a step to the children
NewBareChild(t, path, pos, dir) ==
    LET S == SplitScan(path, 1, [escaped |-> FALSE, stack1 |-> <<>>, stack2 |-> <<>>,
                                 split_pos |-> <<>>, fault |-> FALSE])
        n == Len(S.split_pos)
        start(k) == IF k = 1 THEN 1 ELSE S.split_pos[k - 1]
        stop(k) == IF k = n + 1 THEN Len(path) ELSE S.split_pos[k] - 1
        path_todo == [k \in 1..n + 1 |-> SubSeq(path, start(k), stop(k))]
        first == path_todo[1]
        path_list ==
            IF first = <<>> \/ first = <<".">> THEN Tail(path_todo)
            ELSE IF first = <<"/">> THEN path_todo
            ELSE IF first = <<".", ".">> THEN <<<<"/", ".", ".">>>> \o Tail(path_todo)
            ELSE <<<<"/">> \o first>> \o Tail(path_todo)
    IN IF S.fault \/ S.stack1 # <<>> \/ S.stack2 # <<>>
       THEN [iter |-> NoIter, fault |-> TRUE]
       ELSE [iter |-> [NoIter EXCEPT !.t = t, !.direction = dir,
                                     !.path_list = path_list,
                                     !.todo_list = <<<<pos, 0>>>>,
                                     !.path = path, !.pos = pos],
             fault |-> FALSE]

\* XPathIterator::new; the result is [iter, fault]
New(t, path, pos, dir) ==
    LET S == SplitScan(path, 1, [escaped |-> FALSE, stack1 |-> <<>>, stack2 |-> <<>>,
                                 split_pos |-> <<>>, fault |-> FALSE])
        n == Len(S.split_pos)
        start(k) == IF k = 1 THEN 1 ELSE S.split_pos[k - 1]
        stop(k) == IF k = n + 1 THEN Len(path) ELSE S.split_pos[k] - 1
        path_todo == [k \in 1..n + 1 |-> SubSeq(path, start(k), stop(k))]
        first == path_todo[1]
        path_list ==
            IF first = <<>> \/ first = <<".">> THEN Tail(path_todo)
            ELSE IF first = <<"/">> THEN path_todo
            ELSE IF first = <<".", ".">> THEN <<<<"/", ".", ".">>>> \o Tail(path_todo)
            ELSE <<<<"/", "/">> \o first>> \o Tail(path_todo)
    IN IF S.fault \/ S.stack1 # <<>> \/ S.stack2 # <<>>
       THEN [iter |-> NoIter, fault |-> TRUE]
       ELSE [iter |-> [NoIter EXCEPT !.t = t, !.direction = dir,
                                     !.path_list = path_list,
                                     !.todo_list = <<<<pos, 0>>>>,
                                     !.path = path, !.pos = pos],
             fault |-> FALSE]

\* an iterator that pushes the results of a step in forward order whatever
\* its direction
RECURSIVE NextItemOneWay(_, _)
NextItemOneWay(T, it) ==
    IF it.todo_list = <<>> THEN [iter |-> it, ret |-> NoPos]
    ELSE LET item == it.todo_list[Len(it.todo_list)]
             rest == SubSeq(it.todo_list, 1, Len(it.todo_list) - 1)
             result == Find(T, it.path_list[item[2] + 1], item[1])
             rlen == Len(result)
             pushed == [k \in 1..rlen |-> <<result[rlen - k + 1], item[2] + 1>>]
         IN IF item[2] >= Len(it.path_list)
            THEN [iter |-> [it EXCEPT !.todo_list = rest], ret |-> item[1]]
            ELSE NextItemOneWay(T, [it EXCEPT !.todo_list = rest \o pushed])

\* an iterator that starts over once it has returned None
RECURSIVE NextItemAgain(_, _)
NextItemAgain(T, it) ==
    IF it.todo_list = <<>>
    THEN [iter |-> [it EXCEPT !.todo_list = <<<<it.pos, 0>>>>], ret |-> NoPos]
    ELSE LET item == it.todo_list[Len(it.todo_list)]
             rest == SubSeq(it.todo_list, 1, Len(it.todo_list) - 1)
             result == Find(T, it.path_list[item[2] + 1], item[1])
             rlen == Len(result)
             pushed == [k \in 1..rlen |->
                          <<IF it.direction THEN result[rlen - k + 1] ELSE result[k],
                            item[2] + 1>>]
         IN IF item[2] >= Len(it.path_list)
            THEN [iter |-> [it EXCEPT !.todo_list = rest], ret |-> item[1]]
            ELSE NextItemAgain(T, [it EXCEPT !.todo_list = rest \o pushed])

\* Iterator::next for XPathIterator; the result is [iter, ret]
RECURSIVE NextItem(_, _)
NextItem(T, it) ==
    IF it.todo_list = <<>> THEN [iter |-> it, ret |-> NoPos]
    ELSE LET item == it.todo_list[Len(it.todo_list)]
             rest == SubSeq(it.todo_list, 1, Len(it.todo_list) - 1)
             result == Find(T, it.path_list[item[2] + 1], item[1])
             rlen == Len(result)
             pushed == [k \in 1..rlen |->
                          <<IF it.direction THEN result[rlen - k + 1] ELSE result[k],
                            item[2] + 1>>]
         IN IF item[2] >= Len(it.path_list)
            THEN [iter |-> [it EXCEPT !.todo_list = rest], ret |-> item[1]]
            ELSE NextItem(T, [it EXCEPT !.todo_list = rest \o pushed])

(***************************************************************************)
(* The state machine.  The tokenizer feeds a well-formed document to       *)
(* ETree::read event by event; after Eof the caller works on the parsed    *)
(* tree trees[1] and on a second tree trees[2], first made by              *)
(* ETree::from(ETreeNode::new("b")) and later by subtree.                  *)
(***************************************************************************)
\* A document that is only parsed and written ("parse") is drawn from a
\* larger alphabet than one the caller goes on to edit ("read") or to lay
\* out ("compose").
Reading == pc \in {"read", "parse", "compose", "survey"}

Names == {"a"}

AttrChoices ==
    IF pc = "parse" THEN {<<>>, << <<"x", "1">>, <<"y", "2">> >>} ELSE {<<>>}

WhiteVals == IF pc = "parse" THEN {<<"n">>} ELSE {<<"n">>, <<"n", "s">>}

TopVals == {<<"n">>}

TextVals ==
    CASE pc = "parse" -> WhiteVals \cup {<<"x">>}
      [] pc = "compose" -> {<<"n", "s">>, <<"x">>}
      [] pc = "survey" -> {<<"n">>}
      [] OTHER -> WhiteVals

LeafKinds == IF pc = "parse" THEN {"<Comment>", "<CData>", "<PI>"} ELSE {"<Comment>"}

TopLeafKinds == IF pc = "parse" THEN {"<Comment>", "<DocType>"} ELSE {"<Comment>"}

Decls == {[version |-> "1.0", encoding |-> SomeB("UTF-8"), standalone |-> NoneB]}

NodeBound ==
    CASE pc = "parse" -> MaxDocNodes
      [] pc = "compose" -> MaxPrettyNodes
      [] OTHER -> MaxParseNodes

NewNodes == {NewNode("c")}

IndentArgs == {<<>>, <<"s">>, <<"n", "s", "s">>, <<"r", "n", "s">>, <<"x">>}

TreeIds == {1, 2}

Other(t) == 3 - t

NoOp ==
    [op |-> "none", t |-> 0, pos |-> NoPos, ret |-> NoPos, sub |-> NoPos,
     indent |-> <<>>, seq |-> <<>>, path |-> <<>>]

Op(name, t, pos, ret) ==
    [op |-> name, t |-> t, pos |-> pos, ret |-> ret, sub |-> NoPos, indent |-> <<>>,
     seq |-> <<>>, path |-> <<>>]

RdInit == [status |-> 0, route |-> <<>>, closeidx |-> 0, prevk |-> "none"]

Reader == [tree |-> trees[1], status |-> rd.status, route |-> rd.route,
           closeidx |-> rd.closeidx]

HasRoot(T) ==
    \E i \in 0..DataLen(T) - 1 :
        NodeAt(T, i).route = <<>> /\ ~IsSynthetic(NodeAt(T, i).name)

Init ==
    /\ trees = [t \in TreeIds |-> IF t = 1 THEN EmptyTree(<<"n">>) ELSE From(NewNode("b"))]
    /\ rd = RdInit
    /\ pc = "read"
    /\ last = NoOp
    /\ nops = 0
    /\ nsub = 0
    /\ out = <<>>
    /\ iter = NoIter
    /\ fault = FALSE

\* one iteration of the loop of ETree::read on event e
Feed(e) ==
    LET P == ReadEvent(Reader, e)
    IN /\ trees' = [trees EXCEPT ![1] = P.tree]
       /\ rd' = [status |-> P.status, route |-> P.route, closeidx |-> P.closeidx,
                 prevk |-> IF e.k = "Text" THEN "Text" ELSE "tag"]
       /\ UNCHANGED <<pc, last, nops, nsub, out, iter, fault>>

TokDecl ==
    /\ pc = "parse" /\ rd.prevk = "none"
    /\ \E d \in Decls : Feed(EvDeclOf(d.version, d.encoding, d.standalone))

TokStart ==
    /\ Reading /\ DataLen(trees[1]) < NodeBound
    /\ rd.route = <<>> => ~HasRoot(trees[1])
    /\ \E name \in Names, attr \in AttrChoices : Feed(Ev("Start", name, attr, <<>>))

TokEnd ==
    /\ Reading /\ rd.route # <<>>
    /\ Feed(Ev("End", "", <<>>, <<>>))

TokEmpty ==
    /\ Reading /\ DataLen(trees[1]) < NodeBound
    /\ rd.route = <<>> => ~HasRoot(trees[1])
    /\ \E name \in Names, attr \in AttrChoices : Feed(Ev("Empty", name, attr, <<>>))

TokText ==
    /\ Reading /\ rd.prevk = "tag"
    /\ \E v \in (IF rd.route = <<>> THEN TopVals ELSE TextVals) :
          Feed(Ev("Text", "", <<>>, v))

TokLeaf ==
    /\ Reading /\ DataLen(trees[1]) < NodeBound
    /\ \E kind \in (IF rd.route = <<>> THEN TopLeafKinds ELSE LeafKinds) :
          Feed(Ev("Leaf", kind, <<>>, <<"x">>))

\* Event::Eof ends read; parse_str then calls detect_indent
TokEof ==
    /\ Reading /\ rd.route = <<>> /\ HasRoot(trees[1])
    /\ LET R == DetectIndent(trees[1])
       IN /\ trees' = [trees EXCEPT ![1] = R.tree]
          /\ fault' = R.fault
    /\ rd' = RdInit
    /\ pc' = CASE pc = "parse" -> "parsed"
               [] pc = "survey" -> "roam"
               [] OTHER -> "ready"
    /\ last' = Op("parse_str", 1, NoPos, NoPos)
    /\ UNCHANGED <<nops, nsub, out, iter>>

\* the caller holds parsed trees and no call has panicked
Operating == pc \in {"ready", "roam"} /\ ~fault

Ready == Operating /\ nops < MaxOps

\* the positions the caller passes: those of the sequence and, for a caller
\* that roams, the first one past its end
Positions(t) ==
    IF pc = "roam" THEN 0..DataLen(trees[t]) ELSE 0..DataLen(trees[t]) - 1

\* the result R = [tree, ret, fault] of an operation called on trees[t]
Apply(name, t, pos, R) ==
    /\ trees' = [trees EXCEPT ![t] = R.tree]
    /\ last' = Op(name, t, pos, R.ret)
    /\ fault' = R.fault
    /\ nops' = nops + 1
    /\ UNCHANGED <<rd, pc, nsub, out, iter>>

DoAppendPreviousNode ==
    /\ Ready
    /\ \E t \in TreeIds : \E pos \in Positions(t), node \in NewNodes :
          /\ DataLen(trees[t]) < MaxNodes
          /\ Apply("append_previous_node", t, pos, AppendPreviousNode(trees[t], pos, node))

DoAppendNextNode ==
    /\ Ready
    /\ \E t \in TreeIds : \E pos \in Positions(t), node \in NewNodes :
          /\ DataLen(trees[t]) < MaxNodes
          /\ Apply("append_next_node", t, pos, AppendNextNode(trees[t], pos, node))

DoAppendChildNode ==
    /\ Ready
    /\ \E t \in TreeIds : \E pos \in Positions(t), node \in NewNodes :
          /\ DataLen(trees[t]) < MaxNodes
          /\ Apply("append_child_node", t, pos, AppendChildNode(trees[t], pos, node))

\* the tree handed over is a clone of the caller's other tree
Graft(name, t, pos, R) ==
    /\ trees' = [trees EXCEPT ![t] = R.tree]
    /\ last' = [Op(name, t, pos, R.ret) EXCEPT !.sub =
                   IF last.op = "subtree" /\ last.t = t THEN last.pos ELSE NoPos]
    /\ fault' = R.fault
    /\ nops' = nops + 1
    /\ UNCHANGED <<rd, pc, nsub, out, iter>>

DoAppendPreviousTree ==
    /\ Ready
    /\ \E t \in TreeIds : \E pos \in Positions(t) :
          /\ DataLen(trees[t]) + DataLen(trees[Other(t)]) <= MaxNodes
          /\ Graft("append_previous_tree", t, pos,
                   AppendPreviousTree(trees[t], pos, trees[Other(t)]))

DoAppendNextTree ==
    /\ Ready
    /\ \E t \in TreeIds : \E pos \in Positions(t) :
          /\ DataLen(trees[t]) + DataLen(trees[Other(t)]) <= MaxNodes
          /\ Graft("append_next_tree", t, pos,
                   AppendNextTree(trees[t], pos, trees[Other(t)]))

DoAppendChildTree ==
    /\ Ready
    /\ \E t \in TreeIds : \E pos \in Positions(t) :
          /\ DataLen(trees[t]) + DataLen(trees[Other(t)]) <= MaxNodes
          /\ Graft("append_child_tree", t, pos,
                   AppendChildTree(trees[t], pos, trees[Other(t)]))

DoRemove ==
    /\ Ready
    /\ \E t \in TreeIds : \E pos \in Positions(t) :
          LET R == Remove(trees[t], pos)
          IN Apply("remove", t, pos, [tree |-> R.tree, ret |-> NoPos, fault |-> R.fault])

\* let other = tree.subtree(pos): the clone replaces the caller's other tree
DoSubtree ==
    /\ Operating /\ nsub < MaxExtracts
    /\ \E t \in TreeIds : \E pos \in Positions(t) :
          LET R == Subtree(trees[t], pos)
          IN /\ trees' = [trees EXCEPT ![Other(t)] = R.tree]
             /\ last' = Op("subtree", t, pos, NoPos)
             /\ fault' = R.fault
             /\ nsub' = nsub + 1
             /\ UNCHANGED <<rd, pc, nops, out, iter>>

\* a call that reads the tree: ret is the Option returned (NoPos for None),
\* seq the Vec returned
Look(name, t, pos, ret, seq, panics) ==
    /\ last' = [Op(name, t, pos, ret) EXCEPT !.seq = seq]
    /\ fault' = panics
    /\ nops' = nops + 1
    /\ UNCHANGED <<trees, rd, pc, nsub, out, iter>>

DoParent ==
    /\ Ready
    /\ \E t \in TreeIds : \E pos \in Positions(t) :
          Look("parent", t, pos, Parent(trees[t], pos), <<>>, FALSE)

DoChildren ==
    /\ Ready
    /\ \E t \in TreeIds : \E pos \in Positions(t) :
          Look("children", t, pos, NoPos, Children(trees[t], pos), FALSE)

DoDescendant ==
    /\ Ready
    /\ \E t \in TreeIds : \E pos \in Positions(t) :
          Look("descendant", t, pos, NoPos, Descendant(trees[t], pos), FALSE)

DoPrevious ==
    /\ Ready
    /\ \E t \in TreeIds : \E pos \in Positions(t) :
          Look("previous", t, pos, Previous(trees[t], pos), <<>>, FALSE)

DoNext ==
    /\ Ready
    /\ \E t \in TreeIds : \E pos \in Positions(t) :
          IF NextFault(trees[t], pos) THEN Look("next", t, pos, NoPos, <<>>, TRUE)
          ELSE Look("next", t, pos, Next(trees[t], pos), <<>>, FALSE)

\* ETree::node: self.data.get(pos)
DoNode ==
    /\ Ready
    /\ \E t \in TreeIds : \E pos \in Positions(t) :
          Look("node", t, pos, IF pos < DataLen(trees[t]) THEN pos ELSE NoPos, <<>>, FALSE)

\* toggling the index is idempotent and returns nothing: it is not counted
\* as an operation and last keeps the call made before it
DoSetEnableIndex ==
    /\ Ready
    /\ \E t \in TreeIds, enable_index \in BOOLEAN :
          /\ trees' = [trees EXCEPT ![t] = SetEnableIndex(trees[t], enable_index)]
          /\ UNCHANGED <<rd, pc, last, nops, nsub, out, iter, fault>>

\* the caller asks for an identity the tree may have handed out, or the next one
DoPos ==
    /\ Ready
    /\ \E t \in TreeIds : \E idx \in 0..trees[t].count :
          Look("pos", t, idx, Pos(trees[t], idx), <<>>, FALSE)

DoPretty ==
    /\ Ready
    /\ \E t \in TreeIds : \E indent \in IndentArgs :
          LET R == Pretty(trees[t], indent)
          IN /\ trees' = [trees EXCEPT ![t] = R.tree]
             /\ last' = [Op("pretty", t, NoPos, NoPos) EXCEPT !.indent = indent]
             /\ fault' = R.fault
             /\ nops' = nops + 1
             /\ UNCHANGED <<rd, pc, nsub, out, iter>>

Step ==
    \/ TokStart
    \/ TokEnd
    \/ TokEmpty
    \/ TokText
    \/ TokLeaf
    \/ TokEof
    \/ DoAppendPreviousNode
    \/ DoAppendNextNode
    \/ DoAppendChildNode
    \/ DoAppendPreviousTree
    \/ DoAppendNextTree
    \/ DoAppendChildTree
    \/ DoRemove
    \/ DoSubtree

Spec == Init /\ [][Step]_vars

(***************************************************************************)
(* parse_str, write, parse_str: a document is parsed, the tree written,    *)
(* and what was written parsed again into trees[2].                        *)
(***************************************************************************)
InitParse ==
    /\ trees = [t \in TreeIds |-> EmptyTree(<<"n">>)]
    /\ rd = RdInit
    /\ pc = "parse"
    /\ last = NoOp
    /\ nops = 0
    /\ nsub = 0
    /\ out = <<>>
    /\ iter = NoIter
    /\ fault = FALSE

DoWrite ==
    /\ pc = "parsed" /\ ~fault
    /\ LET W == Write(trees[1])
       IN out' = W.out /\ fault' = W.fault
    /\ pc' = "written"
    /\ last' = Op("write", 1, NoPos, NoPos)
    /\ UNCHANGED <<trees, rd, nops, nsub, iter>>

DoReparse ==
    /\ pc = "written" /\ ~fault
    /\ LET R == ParseStr(Tokenize(out))
       IN trees' = [trees EXCEPT ![2] = R.tree] /\ fault' = R.fault
    /\ pc' = "reparsed"
    /\ last' = Op("parse_str", 2, NoPos, NoPos)
    /\ UNCHANGED <<rd, nops, nsub, out, iter>>

StepParse ==
    \/ TokDecl
    \/ TokStart
    \/ TokEnd
    \/ TokEmpty
    \/ TokText
    \/ TokLeaf
    \/ TokEof
    \/ DoWrite
    \/ DoReparse

SpecParse == InitParse /\ [][StepParse]_vars

(***************************************************************************)
(* parse_str, then pretty called again and again on the parsed tree or on  *)
(* the tree made by ETree::from.                                           *)
(***************************************************************************)
InitPretty ==
    /\ trees = [t \in TreeIds |-> IF t = 1 THEN EmptyTree(<<"n">>) ELSE From(NewNode("b"))]
    /\ rd = RdInit
    /\ pc = "compose"
    /\ last = NoOp
    /\ nops = 0
    /\ nsub = 0
    /\ out = <<>>
    /\ iter = NoIter
    /\ fault = FALSE

StepPretty ==
    \/ TokStart
    \/ TokEnd
    \/ TokEmpty
    \/ TokText
    \/ TokLeaf
    \/ TokEof
    \/ DoPretty

SpecPretty == InitPretty /\ [][StepPretty]_vars

(***************************************************************************)
(* parse_str, then a caller that also passes the position just past the    *)
(* end of the sequence.                                                    *)
(***************************************************************************)
InitRange ==
    /\ trees = [t \in TreeIds |-> IF t = 1 THEN EmptyTree(<<"n">>) ELSE From(NewNode("b"))]
    /\ rd = RdInit
    /\ pc = "survey"
    /\ last = NoOp
    /\ nops = 0
    /\ nsub = 0
    /\ out = <<>>
    /\ iter = NoIter
    /\ fault = FALSE

StepRange ==
    \/ TokStart
    \/ TokEnd
    \/ TokEmpty
    \/ TokText
    \/ TokLeaf
    \/ TokEof
    \/ DoParent
    \/ DoChildren
    \/ DoDescendant
    \/ DoPrevious
    \/ DoNext
    \/ DoNode
    \/ DoAppendPreviousNode
    \/ DoAppendNextNode
    \/ DoAppendChildNode
    \/ DoAppendPreviousTree
    \/ DoAppendNextTree
    \/ DoAppendChildTree
    \/ DoRemove
    \/ DoSubtree

SpecRange == InitRange /\ [][StepRange]_vars

(***************************************************************************)
(* parse_str, then mutations with the index switched on and off.           *)
(***************************************************************************)
\* the events of <name attr/>, <name attr>, </name> and a text
Empty(name, attr) == Ev("Empty", name, attr, <<>>)

Start(name, attr) == Ev("Start", name, attr, <<>>)

End == Ev("End", "", <<>>, <<>>)

Text(str) == Ev("Text", "", <<>>, str)

\* parse_str has returned for one of docs; the second tree is
\* ETree::from(ETreeNode::new("b"))
Loaded(docs) ==
    /\ \E doc \in docs :
          LET R == ParseStr(doc)
          IN /\ trees = [t \in TreeIds |-> IF t = 1 THEN R.tree ELSE From(NewNode("b"))]
             /\ fault = R.fault
    /\ rd = RdInit
    /\ pc = "ready"
    /\ last = Op("parse_str", 1, NoPos, NoPos)
    /\ nops = 0
    /\ nsub = 0
    /\ out = <<>>
    /\ iter = NoIter

\* <a/>, <a><a><a/></a></a> and an indented <a> with two children
IndexDocs ==
    {<<Empty("a", <<>>)>>,
     <<Start("a", <<>>), Start("a", <<>>), Empty("a", <<>>), End, End>>,
     <<Start("a", <<>>), Text(<<"n", "s">>), Empty("a", <<>>), Text(<<"n", "s">>),
       Empty("a", <<>>), Text(<<"n">>), End>>}

InitIndex == Loaded(IndexDocs)

StepIndex ==
    \/ DoSetEnableIndex
    \/ DoPos
    \/ DoAppendPreviousNode
    \/ DoAppendNextNode
    \/ DoAppendChildNode
    \/ DoAppendPreviousTree
    \/ DoAppendNextTree
    \/ DoAppendChildTree
    \/ DoRemove
    \/ DoSubtree

SpecIndex == InitIndex /\ [][StepIndex]_vars

(***************************************************************************)
(* Queries: parse_str has returned for one of FindDocs and the caller      *)
(* evaluates paths on the trees.                                           *)
(***************************************************************************)
\* the calls of Iterator::next the caller makes on one iterator
MaxCalls == 5

\* the calls of find_at and rfind_at the caller makes
MaxFinds == 1

X(value) == <<<<"x", value>>>>

\* <a><b x="1"/><b x="2"/></a>
DocTwoB ==
    <<Start("a", <<>>), Empty("b", X(<<"1">>)), Empty("b", X(<<"2">>)), End>>

\* <a><c>1</c><c>2</c></a>
DocTwoC ==
    <<Start("a", <<>>), Start("c", <<>>), Text(<<"1">>), End,
      Start("c", <<>>), Text(<<"2">>), End, End>>

\* <a><b/><b x="1"/></a>
DocBareB == <<Start("a", <<>>), Empty("b", <<>>), Empty("b", X(<<"1">>)), End>>

\* <a><b x="1=1"/><b x="2"/></a>
DocEqualsSign ==
    <<Start("a", <<>>), Empty("b", X(<<"1", "=", "1">>)), Empty("b", X(<<"2">>)), End>>

\* <a><b><b/></b><a><c>1</c><c>2</c></a></a>
DocNested ==
    <<Start("a", <<>>), Start("b", <<>>), Empty("b", <<>>), End,
      Start("a", <<>>), Start("c", <<>>), Text(<<"1">>), End,
      Start("c", <<>>), Text(<<"2">>), End, End, End>>

FindDocs == {DocTwoB, DocTwoC, DocBareB, DocEqualsSign, DocNested}

\* //b[@x='2']
PathAttrIs2 == <<"/", "/", "b", "[", "@", "x", "=", "'", "2", "'", "]">>

\* //b[@x='1']
PathAttrIs1 == <<"/", "/", "b", "[", "@", "x", "=", "'", "1", "'", "]">>

\* //b[@x='1=1']
PathAttrIsEq == <<"/", "/", "b", "[", "@", "x", "=", "'", "1", "=", "1", "'", "]">>

\* /*
PathChildrenAny == <<"/", "*">>

\* //*
PathDescendantAny == <<"/", "/", "*">>

\* //b[position()=last()]
PathLast == <<"/", "/", "b", "[", "p", "o", "s", "i", "t", "i", "o", "n", "(", ")", "=", "l", "a", "s", "t", "(", ")", "]">>

\* //b[2]
PathSecond == <<"/", "/", "b", "[", "2", "]">>

\* //b[position()=2]
PathPosition2 == <<"/", "/", "b", "[", "p", "o", "s", "i", "t", "i", "o", "n", "(", ")", "=", "2", "]">>

\* //a[c='1' and c='2']
PathBothTexts == <<"/", "/", "a", "[", "c", "=", "'", "1", "'", " ", "a", "n", "d", " ", "c", "=", "'", "2", "'", "]">>

\* //a[c='1' or c='2']
PathEitherText == <<"/", "/", "a", "[", "c", "=", "'", "1", "'", " ", "o", "r", " ", "c", "=", "'", "2", "'", "]">>

\* //b/..
PathUp == <<"/", "/", "b", "/", ".", ".">>

\* //b//b
PathNested == <<"/", "/", "b", "/", "/", "b">>

\* b
PathBare == <<"b">>

\* //c[text()='2']
PathText == <<"/", "/", "c", "[", "t", "e", "x", "t", "(", ")", "=", "'", "2", "'", "]">>

FindPaths ==
    {PathAttrIs2, PathAttrIs1, PathAttrIsEq, PathChildrenAny,
     PathDescendantAny, PathLast, PathSecond, PathPosition2,
     PathBothTexts, PathEitherText, PathUp, PathNested,
     PathBare, PathText}

InitFind == Loaded(FindDocs)

\* find_at_iter and rfind_at_iter: XPathIterator::new
MakeIter(name, dir) ==
    /\ \E path \in FindPaths, pos \in Positions(1) :
          \E R \in {New(1, path, pos, dir)} :
             /\ iter' = R.iter
             /\ fault' = R.fault
             /\ last' = [Op(name, 1, pos, NoPos) EXCEPT !.path = path]
    /\ UNCHANGED <<trees, rd, pc, nops, nsub, out>>

DoFindAtIter ==
    /\ Operating /\ iter = NoIter
    /\ MakeIter("find_at_iter", TRUE)

DoRfindAtIter ==
    /\ Operating /\ iter = NoIter
    /\ MakeIter("rfind_at_iter", FALSE)

\* one call of next on the iterator the caller holds
\* the caller holds an iterator and may call next once more
CanCall == Operating /\ iter # NoIter /\ iter.calls < MaxCalls

DoNextItem ==
    /\ CanCall
    /\ \E R \in {NextItem(trees[iter.t], iter)} :
          /\ iter' = [R.iter EXCEPT
                        !.got = IF R.ret = NoPos THEN @ ELSE Append(@, R.ret),
                        !.ended = @ \/ R.ret = NoPos,
                        !.calls = @ + 1]
          /\ last' = [Op("next", iter.t, iter.pos, R.ret) EXCEPT !.path = iter.path]
    /\ UNCHANGED <<trees, rd, pc, nops, nsub, out, fault>>

\* find_at and rfind_at: a new iterator and one call of next
FirstOf(name, dir) ==
    /\ \E path \in FindPaths, pos \in Positions(1) :
          \E R \in {New(1, path, pos, dir)} :
             /\ fault' = R.fault
             /\ last' = [Op(name, 1, pos,
                            IF R.fault THEN NoPos ELSE NextItem(trees[1], R.iter).ret)
                            EXCEPT !.path = path]
    /\ nops' = nops + 1
    /\ UNCHANGED <<trees, rd, pc, nsub, out, iter>>

DoFindAt ==
    /\ Operating /\ nops < MaxFinds /\ iter = NoIter
    /\ FirstOf("find_at", TRUE)

DoRfindAt ==
    /\ Operating /\ nops < MaxFinds /\ iter = NoIter
    /\ FirstOf("rfind_at", FALSE)

StepFind ==
    \/ DoFindAtIter
    \/ DoRfindAtIter
    \/ DoNextItem
    \/ DoFindAt
    \/ DoRfindAt

SpecFind == InitFind /\ [][StepFind]_vars

\* a caller that goes on calling next: weak fairness of DoNextItem, with
\* CanCall standing for ENABLED <<DoNextItem>>_vars (NextItem is total and
\* every call advances iter.calls, so the action is enabled exactly when
\* its guard holds)
SpecFindFair == SpecFind /\ (<>[]CanCall => []<><<DoNextItem>>_vars)

(***************************************************************************)
(* The structural invariants of the node sequence.                         *)
(***************************************************************************)
AllPos(T) == 0..DataLen(T) - 1

DistinctIds(T) ==
    \A i, j \in AllPos(T) : i # j => NodeAt(T, i).idx # NodeAt(T, j).idx

\* the operations have run on a parsed tree and none has panicked
Settled == pc = "ready" /\ ~fault

Inserts == {"append_previous_node", "append_next_node", "append_child_node"}

Grafts == {"append_previous_tree", "append_next_tree", "append_child_tree"}

\* C1: in every tree reached by parsing, From, subtree and any sequence of
\* inserts, grafts and removes, no two entries carry the same identity.
C1_IdentitiesDistinct ==
    Settled => \A t \in TreeIds : DistinctIds(trees[t])

\* every labelled entry's label is the label of an earlier entry followed by
\* that entry's identity
LabelFromParent(T) ==
    \A i \in AllPos(T) :
        NodeAt(T, i).route # <<>> =>
            \E j \in 0..i - 1 : NodeAt(T, i).route = ChildRoute(T, j)

\* all children of one parent carry the same label
ChildrenShareLabel(T) ==
    \A p \in AllPos(T) :
        LET children == Children(T, p)
        IN \A a, b \in 1..Len(children) :
              NodeAt(T, children[a]).route = NodeAt(T, children[b]).route

\* C2: after any sequence of insert, graft, extract and remove operations
\* every entry whose label is not # has the label of an earlier entry (its
\* parent) followed by that entry's identity, and all children of one parent
\* carry the same label.
C2_LabelInvariant ==
    Settled => \A t \in TreeIds : LabelFromParent(trees[t]) /\ ChildrenShareLabel(trees[t])

\* the positions whose label has label(p) + id(p) + # as a prefix
Below(T, p) == {q \in AllPos(T) : StartsWith(NodeAt(T, q).route, ChildRoute(T, p))}

\* the sequence is the pre-order traversal of the logical tree
PreOrder(T) ==
    /\ \A p \in AllPos(T) : Below(T, p) = p + 1..p + Cardinality(Below(T, p))
    /\ \A q \in AllPos(T) :
          NodeAt(T, q).route # <<>> =>
              /\ Parent(T, q) # NoPos
              /\ q \in Below(T, Parent(T, q))

\* C3: after any sequence of insert, graft and remove operations, for every
\* position p the entries whose label has label(p) + id(p) + # as a prefix are
\* exactly the contiguous block immediately following p, and every node sits
\* inside the block of its parent.
C3_PreOrder ==
    Settled => \A t \in TreeIds : PreOrder(trees[t])

(***************************************************************************)
(* The mutations, stated on one step: T is the tree before the call, U the *)
(* tree after it.                                                          *)
(***************************************************************************)
\* this step is a call of op that returned without a panic
Called(op) == last'.op = op /\ nops' = nops + 1 /\ ~fault'

Before == trees[last'.t]

After == trees'[last'.t]

AppendNextPost(T, U, pos, n) ==
    /\ Next(U, pos) = n
    /\ NodeAt(U, n).tail = NodeAt(T, pos).tail
    /\ Previous(U, pos) # NoPos =>
          NodeAt(U, pos).tail = NodeAt(U, Previous(U, pos)).tail
    /\ Previous(U, pos) = NoPos /\ Parent(U, pos) # NoPos =>
          Some(NodeAt(U, pos).tail) = NodeAt(U, Parent(U, pos)).text

\* C4: after append_next_node(pos, n) succeeds, next(pos) is the position of
\* n, n's tail is pos's tail from before the call, and pos's tail is the tail
\* of pos's previous sibling or, when pos has none, the text of pos's parent.
C4_AppendNextNode ==
    [][Called("append_next_node") /\ last'.ret # NoPos =>
           AppendNextPost(Before, After, last'.pos, last'.ret)]_vars

\* append_next_node has inserted after a first child whose parent's text is
\* not empty
C4_Witness ==
    /\ Settled /\ last.op = "append_next_node" /\ last.ret # NoPos
    /\ LET T == trees[last.t]
       IN /\ Previous(T, last.pos) = NoPos
          /\ Parent(T, last.pos) # NoPos
          /\ NodeAt(T, last.pos).tail # <<>>

FirstChildPost(T, U, p, n) ==
    /\ Children(U, p) = <<n>>
    /\ NodeAt(U, p).text = Some(NodeAt(U, n).tail \o U.indent)

\* C5: after append_child_node(p, n) on a node p that has no children,
\* children(p) is exactly the position of n and p's text is the tail handed
\* to n followed by the tree's indent unit.
C5_FirstChild ==
    [][Called("append_child_node") /\ last'.ret # NoPos
         /\ Children(Before, last'.pos) = <<>> =>
           FirstChildPost(Before, After, last'.pos, last'.ret)]_vars

\* p's text is rewritten only when it was absent or empty
FirstChildPostAmended(T, U, p, n) ==
    /\ Children(U, p) = <<n>>
    /\ NodeAt(U, p).text =
          IF NodeAt(T, p).text \in {None, Some(<<>>)}
          THEN Some(NodeAt(U, n).tail \o U.indent)
          ELSE NodeAt(T, p).text

\* C5 (amended): after append_child_node(p, n) on a childless p, children(p)
\* is exactly the position of n; p's text is the tail handed to n followed by
\* the indent unit when p's text was absent or empty, and is unchanged
\* otherwise.
C5_FirstChildAmended ==
    [][Called("append_child_node") /\ last'.ret # NoPos
         /\ Children(Before, last'.pos) = <<>> =>
           FirstChildPostAmended(Before, After, last'.pos, last'.ret)]_vars

\* a first child has been inserted into a node whose text was kept
C5_Witness ==
    /\ Settled /\ last.op = "append_child_node" /\ last.ret # NoPos
    /\ LET T == trees[last.t]
       IN /\ Children(T, last.pos) = <<last.ret>>
          /\ NodeAt(T, last.pos).text.some
          /\ NodeAt(T, last.pos).text.s # NodeAt(T, last.ret).tail \o T.indent

Mentions(T, id) ==
    \E i \in AllPos(T) : \E k \in 1..Len(NodeAt(T, i).route) : NodeAt(T, i).route[k] = id

RemovePost(T, U, pos) ==
    /\ ~Mentions(U, NodeAt(T, pos).idx)
    /\ Previous(T, pos) # NoPos =>
          NodeAt(U, Previous(T, pos)).tail = NodeAt(T, pos).tail

\* C6: after remove(pos) no surviving entry's label has the removed node's
\* identity as a segment, and a previous sibling of the removed node has the
\* removed node's tail from before the call.
C6_Remove ==
    [][Called("remove") => RemovePost(Before, After, last'.pos)]_vars

IdSeq(data) == [i \in 1..Len(data) |-> data[i].idx]

\* data without the k entries from position at on
DropBlock(data, at, k) == SubSeq(data, 1, at) \o SubSeq(data, at + k + 1, Len(data))

\* C7: every insert, graft and remove on a tree leaves the identity of every
\* node of that tree that it does not remove unchanged; only positions
\* change.
C7_IdentityStable ==
    [][/\ (\E op \in Inserts \cup Grafts : Called(op) /\ last'.ret # NoPos) =>
              IdSeq(DropBlock(After.data, last'.ret, DataLen(After) - DataLen(Before)))
                  = IdSeq(Before.data)
       /\ Called("remove") =>
              IdSeq(After.data)
                  = IdSeq(DropBlock(Before.data, last'.pos,
                                    DataLen(Before) - DataLen(After)))]_vars

\* a graft of several nodes has landed in front of nodes that were there, and
\* a remove has left nodes behind the removed block
C7_Witness ==
    /\ Settled
    /\ \/ /\ last.op \in Grafts /\ last.ret # NoPos
          /\ last.ret + 1 < DataLen(trees[last.t]) - 1
       \/ /\ last.op = "remove"
          /\ last.pos < DataLen(trees[last.t])

(***************************************************************************)
(* subtree(pos) followed by append_child_tree at the parent of pos.        *)
(***************************************************************************)
IsChild(T, p, pos) ==
    \E i \in 1..Len(Children(T, p)) : Children(T, p)[i] = pos

\* this step grafts the tree subtree(pos) has just returned below the parent
\* of pos, of which pos is a child
Regrafted ==
    /\ Called("append_child_tree") /\ last'.ret # NoPos
    /\ last'.sub # NoPos
    /\ last'.pos = Parent(Before, last'.sub)
    /\ IsChild(Before, last'.pos, last'.sub)

\* C8: subtree(pos) followed by append_child_tree of that subtree at the
\* parent of pos, with nothing in between, reproduces the original document:
\* what is written is what the tree before the two calls writes.
C8_Regraft ==
    [][Regrafted => Write(After).out = Write(Before).out]_vars

\* what a block of entries says, whatever its identities and its place
Shape(block) ==
    [i \in 1..Len(block) |->
        [name |-> block[i].name, attr |-> block[i].attr, text |-> block[i].text,
         tail |-> IF i = 1 THEN <<>> ELSE block[i].tail,
         depth |-> Len(block[i].route) - Len(block[1].route)]]

RegraftPost(T, U, p, pos, ret) ==
    LET k == 1 + Len(Descendant(T, pos))
        children == Children(T, p)
        former == children[Len(children)]
        rest == DropBlock(U.data, ret, k)
    IN /\ DataLen(U) = DataLen(T) + k
       /\ ret = p + 1 + Len(Descendant(T, p))
       /\ Parent(U, ret) = p
       /\ Shape(SubSeq(U.data, ret + 1, ret + k)) = Shape(SubSeq(T.data, pos + 1, pos + k))
       /\ NodeAt(U, ret).tail = NodeAt(T, former).tail
       /\ \A i \in AllPos(T) :
             /\ rest[i + 1] = [NodeAt(T, i) EXCEPT !.tail = rest[i + 1].tail]
             /\ i # former => rest[i + 1].tail = NodeAt(T, i).tail

\* C8 (amended): subtree(pos) followed by append_child_tree of that subtree
\* at the parent of pos adds a copy of the subtree as the parent's last
\* child: the sequence grows by the size of the subtree, the copy follows the
\* parent's last descendant and has the names, attributes, texts, depths and
\* inner tails of pos's block, its first tail is the former last child's, and
\* every entry that was there keeps its identity, label, name, attributes and
\* text, and its tail unless it is the former last child.
C8_RegraftAmended ==
    [][Regrafted =>
           RegraftPost(Before, After, last'.pos, last'.sub, last'.ret)]_vars

\* a subtree of several entries has been grafted below the parent it was
\* taken from
C8_Witness ==
    /\ Settled /\ last.op = "append_child_tree" /\ last.ret # NoPos
    /\ last.sub # NoPos
    /\ Len(Descendant(trees[last.t], last.ret)) >= 1
    /\ Parent(trees[last.t], last.ret) = last.pos
    /\ Parent(trees[last.t], last.sub) = last.pos

(***************************************************************************)
(* parse(serialize(T)).                                                    *)
(***************************************************************************)
\* what the round trip is to keep of a tree
Document(T) ==
    [version |-> T.version, encoding |-> T.encoding, standalone |-> T.standalone,
     nodes |-> [i \in 1..Len(T.data) |->
                  [name |-> T.data[i].name, attr |-> T.data[i].attr,
                   text |-> T.data[i].text, tail |-> T.data[i].tail,
                   depth |-> Len(T.data[i].route)]]]

\* C9: for every tree T parsed from a well-formed event stream, the
\* serialization of T is written and parsing it yields a node sequence equal
\* to T's in names, depth of labels, ordered attributes, text (absent or
\* empty told apart), tail and declaration fields.
C9_RoundTrip ==
    /\ pc = "written" => ~fault
    /\ pc = "reparsed" => ~fault /\ Document(trees[2]) = Document(trees[1])

\* a document with a declaration, attributes, an element without text, one
\* with text and a synthetic node has made the round trip
C9_Witness ==
    /\ pc = "reparsed" /\ ~fault
    /\ trees[1].encoding.some
    /\ \E i, j, k \in AllPos(trees[2]) :
          /\ NodeAt(trees[2], i).attr # <<>>
          /\ ~NodeAt(trees[2], j).text.some
          /\ IsSynthetic(NodeAt(trees[2], k).name)

(***************************************************************************)
(* pretty(indent) twice.                                                   *)
(***************************************************************************)
Layout(T) == [i \in 1..Len(T.data) |-> [text |-> T.data[i].text, tail |-> T.data[i].tail]]

\* this step calls pretty on the tree, and with the indent, of the call before
\* it, which returned
PrettyAgain ==
    /\ last.op = "pretty" /\ ~fault
    /\ last'.op = "pretty" /\ nops' = nops + 1
    /\ last'.t = last.t /\ last'.indent = last.indent

\* C10: for every tree and every indent argument, calling pretty(indent)
\* twice leaves every node's text and tail as calling it once does.
C10_PrettyIdempotent ==
    [][PrettyAgain => ~fault' /\ Layout(After) = Layout(Before)]_vars

WhiteOnly(str) == \A i \in 1..Len(str) : IsWhite(str[i])

\* C10 (amended): for every tree and every indent argument made of white
\* space only, when pretty(indent) returns, calling it again returns too and
\* leaves every node's text and tail as they were.
C10_PrettyIdempotentWhite ==
    [][PrettyAgain /\ WhiteOnly(last.indent) =>
           ~fault' /\ Layout(After) = Layout(Before)]_vars

\* pretty has been called twice with the same white indent on a tree three
\* entries deep, one of them with text that is not white space
C10_Witness ==
    /\ pc = "ready" /\ ~fault /\ nops >= 2 /\ last.op = "pretty"
    /\ WhiteOnly(last.indent) /\ last.indent # <<>>
    /\ LET T == trees[last.t]
       IN /\ \E i \in AllPos(T) : Len(NodeAt(T, i).route) = 2
          /\ \E i \in AllPos(T) :
                /\ ~IsSynthetic(NodeAt(T, i).name)
                /\ NodeAt(T, i).text.some
                /\ ~WhiteOnly(NodeAt(T, i).text.s)
          /\ T.indent = Lines(last.indent)[Len(Lines(last.indent))]

(***************************************************************************)
(* Positions past the end of the sequence.                                 *)
(***************************************************************************)
Navigations == {"parent", "children", "descendant", "previous", "next", "node"}

\* this step calls op with a position that is not one of the sequence
CalledPast(op) ==
    /\ last'.op = op
    /\ nops' + nsub' = nops + nsub + 1
    /\ last'.pos >= DataLen(Before)

\* C11: parent, children, descendant, previous, next, node, subtree,
\* append_*_node, append_*_tree and remove, called with a position out of
\* range for the sequence (an empty sequence included), yield an absent or
\* empty result, leave the tree as it is and never fault.
C11_OutOfRange ==
    [][(\E op \in Navigations \cup Inserts \cup Grafts \cup {"remove", "subtree"} :
           CalledPast(op)) =>
          /\ ~fault'
          /\ last'.ret = NoPos /\ last'.seq = <<>>
          /\ trees' = trees]_vars

(***************************************************************************)
(* Positions obtained before a mutation.                                   *)
(***************************************************************************)
\* position i designates in U the node it designated in T
SameNode(T, U, i) ==
    /\ i < DataLen(U)
    /\ NodeAt(U, i).idx = NodeAt(T, i).idx
    /\ NodeAt(U, i).name = NodeAt(T, i).name
    /\ NodeAt(U, i).attr = NodeAt(T, i).attr

\* this step is an insert or a graft that returned Some(r)
Landed == \E op \in Inserts \cup Grafts : Called(op) /\ last'.ret # NoPos

RemoveKeeps ==
    Called("remove") => \A i \in 0..last'.pos - 1 : SameNode(Before, After, i)

IndexAgrees(T) ==
    /\ \A idx \in 0..T.count : IndexGet(T.index, idx) = ScanPos(T, idx)
    /\ \A i \in 0..DataLen(T) - 1 : IndexGet(T.index, NodeAt(T, i).idx) = i

\* C12: with the index enabled, after any sequence of inserts, grafts and
\* removes and any toggling of set_enable_index, pos(id) is the current
\* position of every node of the tree and None for an identity the tree
\* does not hold, as the linear scan answers without the index.
C12_IndexRefinesScan ==
    Settled => \A t \in TreeIds : trees[t].enable_index => IndexAgrees(trees[t])

(***************************************************************************)
(* Queries.                                                                *)
(***************************************************************************)
\* the iterator the caller holds has returned None
Drained == iter # NoIter /\ iter.ended /\ ~fault

\* drained, and made by find_at_iter
Forward == Drained /\ iter.direction

\* the positions of seq whose node is named name
NamedIn(T, seq, name) ==
    LET Is(pos) == NodeAt(T, pos).name = name IN SelectSeq(seq, Is)

\* the positions of seq whose node carries attribute x with value v
WithX(T, seq, v) ==
    LET Is(pos) ==
            LET k == FindAttr(NodeAt(T, pos).attr, "x")
            IN k # 0 /\ NodeAt(T, pos).attr[k][2] = v
    IN SelectSeq(seq, Is)

\* every node of seq carries attribute x
AllCarryX(T, seq) ==
    \A i \in 1..Len(seq) : FindAttr(NodeAt(T, seq[i]).attr, "x") # 0

\* the path //name[@x='v']
AttrStep(name, v) ==
    <<"/", "/", name, "[", "@", "x", "=", "'">> \o v \o <<"'", "]">>

StepNames == {"a", "b", "c"}

PlainValues == {<<"1">>, <<"2">>}

\* C14: for the step //name[@x='v'], when every candidate (the descendants
\* named name) carries attribute x, the result is the candidates whose x is
\* v, in candidate order.
C14_AttrEquals ==
    Forward =>
        \A name \in StepNames, v \in PlainValues \cup {<<"1", "=", "1">>} :
            LET cands == NamedIn(trees[1], Descendant(trees[1], iter.pos), name)
            IN iter.path = AttrStep(name, v) /\ AllCarryX(trees[1], cands) =>
                  iter.got = WithX(trees[1], cands, v)

\* C15: a candidate without the attribute the predicate names does not
\* match and does not affect the others: for //name[@x='v'] the result is
\* the candidates that carry x with value v, in candidate order.
C15_MissingAttr ==
    Forward =>
        \A name \in StepNames, v \in PlainValues :
            iter.path = AttrStep(name, v) =>
                iter.got = WithX(trees[1],
                                 NamedIn(trees[1], Descendant(trees[1], iter.pos), name), v)

\* C16: /* from p yields children(p) and //* from p yields descendant(p).
C16_AnyTag ==
    Forward =>
        /\ iter.path = PathChildrenAny => iter.got = Children(trees[1], iter.pos)
        /\ iter.path = PathDescendantAny => iter.got = Descendant(trees[1], iter.pos)

\* the positions of the b elements when they are exactly two siblings
TwoSiblingBs(T) ==
    LET bs == NamedIn(T, Ascending(0, DataLen(T) - 1), "b")
    IN IF Len(bs) = 2 /\ NodeAt(T, bs[1]).route = NodeAt(T, bs[2]).route
       THEN bs ELSE <<>>

\* C17: over a document whose b elements are exactly two siblings,
\* //b[position()=last()] and //b[2] from the root each yield the second b
\* and nothing else.
C17_LastIsSecond ==
    Forward /\ iter.pos = Root(trees[1]) /\ TwoSiblingBs(trees[1]) # <<>> =>
        (iter.path \in {PathLast, PathSecond} =>
            iter.got = <<TwoSiblingBs(trees[1])[2]>>)

\* C18: on <a><c>1</c><c>2</c></a>, find of //a[c='1' and c='2'] from the
\* root returns a.
C18_ChildCombination ==
    /\ ~fault
    /\ last.op = "find_at" /\ last.path = PathBothTexts
    /\ trees[1] = ParseStr(DocTwoC).tree
    /\ last.pos = Root(trees[1])
    => last.ret = Root(trees[1])

\* every item an iterator yields, in order
RECURSIVE Collect(_, _)
Collect(T, it) ==
    LET R == NextItem(T, it)
    IN IF R.ret = NoPos THEN <<>> ELSE <<R.ret>> \o Collect(T, R.iter)

Reverse(seq) == [i \in 1..Len(seq) |-> seq[Len(seq) - i + 1]]

\* what find_at_iter(path, pos) yields on the queried tree
ForwardItems(path, pos) == Collect(trees[1], New(1, path, pos, TRUE).iter)

\* C19: rfind_at_iter yields the items of find_at_iter in reverse order;
\* find_at returns the first of them and rfind_at the last, None when there
\* is none.
C19_ReverseOrder ==
    /\ Drained /\ ~iter.direction =>
          iter.got = Reverse(ForwardItems(iter.path, iter.pos))
    /\ last.op \in {"find_at", "rfind_at"} /\ ~fault =>
          LET items == ForwardItems(last.path, last.pos)
          IN last.ret = IF items = <<>> THEN NoPos
                        ELSE IF last.op = "find_at" THEN items[1]
                        ELSE items[Len(items)]

\* rfind_at_iter has yielded several items and then None
C19_Witness ==
    Drained /\ ~iter.direction /\ Len(iter.got) >= 2 /\ iter.got[1] # iter.got[2]

\* C20: repeated calls of next reach None after finitely many items, also
\* on a path with a ".." step, and once next has returned None every later
\* call returns None.
C20_FiniteSinglePass ==
    /\ (iter # NoIter /\ ~fault) ~> iter.ended
    /\ [][iter.ended /\ iter'.calls = iter.calls + 1 =>
             last'.ret = NoPos /\ iter'.got = iter.got /\ iter'.ended]_vars

\* an iterator over //b/.. has yielded an item, returned None and been
\* asked again
C20_Witness ==
    /\ Drained /\ iter.path = PathUp /\ iter.got # <<>>
    /\ iter.calls >= Len(iter.got) + 2
    /\ last.op = "next" /\ last.ret = NoPos

(***************************************************************************)
(* The identity counter.                                                   *)
(***************************************************************************)
\* the counter is greater than every identity in the sequence
CounterAbove(T) == \A i \in AllPos(T) : NodeAt(T, i).idx < T.count

\* C21: in every tree reached by parsing, From, subtree and any sequence of
\* inserts, grafts and removes the identity counter is greater than every
\* identity in the sequence, and no insert, graft or remove lowers the
\* counter of the tree it is called on.
C21_CounterAbove ==
    [][/\ pc' = "ready" /\ ~fault' => \A t \in TreeIds : CounterAbove(trees'[t])
       /\ (\E op \in Inserts \cup Grafts \cup {"remove"} : Called(op)) =>
              After.count >= Before.count]_vars

(***************************************************************************)
(* append_previous_node.                                                   *)
(***************************************************************************)
\* where the entry at position pos of T is once an entry has been inserted
\* at position r
Moved(pos, r) == IF r <= pos THEN pos + 1 ELSE pos

AppendPreviousPost(T, U, pos, r) ==
    LET q == Moved(pos, r)
    IN /\ NodeAt(U, q).idx = NodeAt(T, pos).idx
       /\ Next(U, r) = q
       /\ Previous(U, q) = r
       /\ Previous(T, pos) = NoPos =>
             /\ Parent(U, r) # NoPos
             /\ Children(U, Parent(U, r))[1] = r
             /\ Some(NodeAt(U, r).tail) = NodeAt(U, Parent(U, r)).text

\* C22: after append_previous_node(pos, n) returns Some(r) the node at r is
\* the previous sibling of the node that was at pos (next(r) is that node and
\* its previous is r); when that node had no previous sibling the new node is
\* the first child of its parent and its tail is the parent's text; when the
\* node has neither a previous sibling nor a parent the call returns None and
\* leaves the tree as it was.  Stated of every call on a tree the operations
\* have reached.
C22_AppendPreviousNode ==
    Settled => \A t \in TreeIds : \A pos \in AllPos(trees[t]), n \in NewNodes :
        \A R \in {AppendPreviousNode(trees[t], pos, n)} : ~R.fault =>
            /\ R.ret # NoPos => AppendPreviousPost(trees[t], R.tree, pos, R.ret)
            /\ Previous(trees[t], pos) = NoPos /\ Parent(trees[t], pos) = NoPos =>
                  R.ret = NoPos /\ R.tree = trees[t]

(***************************************************************************)
(* append_child_node.                                                      *)
(***************************************************************************)
LastChild(T, p) == Children(T, p)[Len(Children(T, p))]

\* C23: for a node p that has children, append_child_node(p, n) leaves the
\* sequence (identities, labels, names, attributes, texts and tails) that
\* append_next_node(c, n) leaves, c being the last child of p.
C23_ChildIsNextOfLast ==
    [][Called("append_child_node") /\ last'.ret # NoPos
         /\ Children(Before, last'.pos) # <<>> =>
           \E n \in NewNodes :
               \E R \in {AppendNextNode(Before, LastChild(Before, last'.pos), n)} :
                   ~R.fault /\ After.data = R.tree.data]_vars

\* the tail prepare_append_child hands to the first child of p
FirstTail(T, p) ==
    IF Previous(T, p) # NoPos THEN NodeAt(T, Previous(T, p)).tail
    ELSE IF Parent(T, p) # NoPos THEN NodeAt(T, Parent(T, p)).tail
    ELSE T.crlf

\* C24: append_child_node(p, n) on a childless p rewrites p's text only when
\* it was absent or empty, to tail + indent, tail being the tail of p's
\* previous sibling, else of p's parent, else the newline string; a text
\* that was present and not empty is left as it was.
C24_TextOnlyWhenEmpty ==
    [][Called("append_child_node") /\ last'.ret # NoPos
         /\ Children(Before, last'.pos) = <<>> =>
           NodeAt(After, last'.pos).text =
               IF ~NodeAt(Before, last'.pos).text.some
                    \/ NodeAt(Before, last'.pos).text.s = <<>>
               THEN Some(FirstTail(Before, last'.pos) \o Before.indent)
               ELSE NodeAt(Before, last'.pos).text]_vars

\* a first child has been inserted into a node below the root whose text is
\* now the tail handed to the child followed by a non-empty indent unit
C24_Witness ==
    /\ Settled /\ last.op = "append_child_node" /\ last.ret # NoPos
    /\ LET T == trees[last.t]
       IN /\ Children(T, last.pos) = <<last.ret>>
          /\ Parent(T, last.pos) # NoPos
          /\ T.indent # <<>>
          /\ NodeAt(T, last.pos).text = Some(NodeAt(T, last.ret).tail \o T.indent)

(***************************************************************************)
(* An insert followed by remove of the node inserted.                      *)
(***************************************************************************)
\* what the three inserts make of T when called with pos and n
InsertsAt(T, pos, n) ==
    {AppendNextNode(T, pos, n), AppendPreviousNode(T, pos, n), AppendChildNode(T, pos, n)}

\* identity, label, text and tail of every entry
Told(T) ==
    [i \in 1..Len(T.data) |->
        [idx |-> T.data[i].idx, route |-> T.data[i].route,
         text |-> T.data[i].text, tail |-> T.data[i].tail]]

\* C25: for every tree and position, an insert that returns Some(r) followed
\* at once by remove(r) leaves the identities, the labels and every node's
\* text and tail as they were before the insert.  Stated of the trees from
\* which the model can still take both steps.
C25_RemoveUndoesInsert ==
    Settled /\ nops + 2 <= MaxOps =>
        \A t \in TreeIds : \A pos \in AllPos(trees[t]), n \in NewNodes :
            \A I \in InsertsAt(trees[t], pos, n) :
                ~I.fault /\ I.ret # NoPos =>
                    \E R \in {Remove(I.tree, I.ret)} :
                        ~R.fault /\ Told(R.tree) = Told(trees[t])

(***************************************************************************)
(* remove.                                                                 *)
(***************************************************************************)
\* identity, label, name and attributes of the entries of data
Kept(data) ==
    [i \in 1..Len(data) |->
        [idx |-> data[i].idx, route |-> data[i].route, name |-> data[i].name,
         attr |-> data[i].attr]]

\* C26: remove(pos) deletes the entry at pos and its descendants, 1 +
\* |descendant(pos)| entries, and nothing else: every other entry is still
\* there with its identity, label, name and attributes, in the same order.
C26_RemoveExactlyBlock ==
    [][Called("remove") =>
           LET k == 1 + Len(Descendant(Before, last'.pos))
           IN /\ DataLen(After) = DataLen(Before) - k
              /\ Kept(After.data) = Kept(DropBlock(Before.data, last'.pos, k))]_vars

\* remove has deleted a node with a descendant and left entries before and
\* behind the block
C26_Witness ==
    /\ Settled /\ last.op = "remove"
    /\ 0 < last.pos /\ last.pos < DataLen(trees[last.t])
    /\ nops = 2

(***************************************************************************)
(* subtree.                                                                *)
(***************************************************************************)
SubtreePost(T, S, pos) ==
    LET k == 1 + Len(Descendant(T, pos))
        above == Len(NodeAt(T, pos).route)
    IN /\ DataLen(S) = k
       /\ \A i \in 0..k - 1 :
             /\ NodeAt(S, i).idx = NodeAt(T, pos + i).idx
             /\ NodeAt(S, i).name = NodeAt(T, pos + i).name
             /\ NodeAt(S, i).attr = NodeAt(T, pos + i).attr
             /\ NodeAt(S, i).text = NodeAt(T, pos + i).text
             /\ NodeAt(S, i).tail = NodeAt(T, pos + i).tail
             /\ NodeAt(T, pos + i).route =
                   SubSeq(NodeAt(T, pos).route, 1, above) \o NodeAt(S, i).route
       /\ NodeAt(S, 0).route = <<>>
       /\ LabelFromParent(S) /\ ChildrenShareLabel(S)

\* C27: subtree(pos) returns a tree of 1 + |descendant(pos)| entries, those
\* of pos's block in source order with their identities, names, attributes,
\* texts and tails; its first label is # and every label is the source label
\* without the prefix above pos's own label, so that the label invariants
\* hold in the clone.  Stated of every call on a tree the operations have
\* reached.
C27_SubtreeClone ==
    Settled => \A t \in TreeIds : \A pos \in AllPos(trees[t]) :
        \A R \in {Subtree(trees[t], pos)} :
            ~R.fault => SubtreePost(trees[t], R.tree, pos)

(***************************************************************************)
(* The grafts.                                                             *)
(***************************************************************************)
\* the position in G of the node that segment k of the label of entry j
\* refers to: the nearest earlier entry labelled with the k - 1 segments
\* before it
Referred(G, j, k) ==
    SetMax({q \in 0..j - 1 : NodeAt(G, q).route = SubSeq(NodeAt(G, j).route, 1, k - 1)}
           \cup {NoPos})

\* G is the incoming tree, c the counter of the destination before the call
GraftPost(T, G, U, r) ==
    LET c == T.count
        n == DataLen(G)
    IN /\ DataLen(U) = DataLen(T) + n
       /\ U.count = c + n
       /\ \A j \in 0..n - 1 :
             /\ NodeAt(U, r + j).idx = c + j
             /\ NodeAt(U, r + j).name = NodeAt(G, j).name
             /\ NodeAt(U, r + j).attr = NodeAt(G, j).attr
             /\ NodeAt(U, r + j).text = NodeAt(G, j).text
             /\ NodeAt(U, r + j).route =
                   NodeAt(U, r).route \o
                   [k \in 1..Len(NodeAt(G, j).route) |-> c + Referred(G, j, k)]

\* C28: a graft of an incoming tree of n entries inserts them as one block
\* at the returned position in the incoming order, gives them the identities
\* c, ..., c + n - 1, c being the destination's counter before the call,
\* rewrites every segment of an incoming label to the new identity of the
\* node it referred to, and sets the counter to c + n.
C28_GraftRenumbers ==
    [][(\E op \in Grafts : Called(op)) /\ last'.ret # NoPos =>
           GraftPost(Before, trees[Other(last'.t)], After, last'.ret)]_vars


(***************************************************************************)
(* The navigation functions.                                               *)
(***************************************************************************)
\* the positions reached by following next from q on
RECURSIVE NextChain(_, _)
NextChain(T, q) ==
    IF Next(T, q) = NoPos THEN <<q>> ELSE <<q>> \o NextChain(T, Next(T, q))

InSeq(seq, x) == \E i \in 1..Len(seq) : seq[i] = x

NavigationAgrees(T) ==
    /\ \A p \in AllPos(T) :
          \A children \in {Children(T, p)}, offspring \in {Descendant(T, p)} :
             /\ \A i \in 1..Len(children) :
                   /\ Parent(T, children[i]) = p
                   /\ InSeq(offspring, children[i])
             /\ children = IF offspring = <<>> THEN <<>> ELSE NextChain(T, p + 1)
    /\ \A p \in AllPos(T) :
          /\ \A q \in {Next(T, p)} : q # NoPos => Previous(T, q) = p
          /\ \A q \in {Previous(T, p)} : q # NoPos => Next(T, q) = p

OpensAndCloses(T, p) ==
    /\ NodeAt(T, p).text.some
    /\ \A w \in {WriteNode(NodeAt(T, p))} :
          \A i \in 1..Len(w.out) : w.out[i].k # "Empty"

\* C30: in every tree reached from a parsed document by inserts, grafts and
\* removes, every entry that has at least one child has a present text, so
\* that write never emits a self-closing tag for an element with children.
C30_ParentsHaveText ==
    Settled => \A t \in TreeIds : \A p \in AllPos(trees[t]) :
                  Children(trees[t], p) # <<>> => OpensAndCloses(trees[t], p)

\* a first child has just been inserted into the root, which now carries the
\* text made for it: the newline string followed by the indent unit
C30_Witness ==
    /\ Settled /\ last.op = "append_child_node" /\ last.ret # NoPos
    /\ LET T == trees[last.t]
       IN /\ last.pos = 0 /\ DataLen(T) = 2
          /\ Children(T, 0) = <<1>>
          /\ NodeAt(T, 0).text = Some(T.crlf \o T.indent)
          /\ OpensAndCloses(T, 0)

(***************************************************************************)
(* write on the trees the operations reach.                                *)
(***************************************************************************)
\* lines 617-656: entry idx is a sibling of entry idx - 1, its child, or an
\* entry after whose predecessor tags are closed
Classified(T, idx) ==
    \/ NodeAt(T, idx).route = NodeAt(T, idx - 1).route
    \/ StartsWith(NodeAt(T, idx).route, NodeAt(T, idx - 1).route)
    \/ StartsWith(NodeAt(T, idx - 1).route, NodeAt(T, idx).route)

\* the Start and End events of events are nested: every End closes the
\* element opened last, and open holds the names still open
RECURSIVE Nested(_, _)
Nested(events, open) ==
    IF events = <<>> THEN open = <<>>
    ELSE LET e == Head(events)
         IN IF e.k = "Start" THEN Nested(Tail(events), <<e.name>> \o open)
            ELSE IF e.k = "End"
                 THEN /\ open # <<>>
                      /\ Head(open) = e.name
                      /\ Nested(Tail(events), Tail(open))
                 ELSE Nested(Tail(events), open)

CountOf(events, k) == Cardinality({i \in 1..Len(events) : events[i].k = k})

\* the elements of T that have a text
Opened(T) ==
    {p \in AllPos(T) : ~IsSynthetic(NodeAt(T, p).name) /\ NodeAt(T, p).text.some}

WellWritten(T) ==
    /\ \A idx \in 1..DataLen(T) - 1 : Classified(T, idx)
    /\ \A W \in {Write(T)} :
          /\ ~W.fault
          /\ Nested(W.out, <<>>)
          /\ CountOf(W.out, "End") = Cardinality(Opened(T))
          /\ CountOf(W.out, "Start") = Cardinality(Opened(T))

\* C31: for every non-empty tree reached from a parsed tree or a tree of
\* ETree::from by inserts, grafts and removes, write finds every adjacent
\* pair of labels to be sibling, child or close and does not panic, the
\* open and close tags it emits are nested, and it emits one close tag for
\* each element that has a text.
C31_WellWritten ==
    Settled /\ nsub = 0 =>
        \A t \in TreeIds : DataLen(trees[t]) > 0 => WellWritten(trees[t])

\* two operations have left a tree in which an element with a text holds a
\* child that holds a child, followed by a further entry
C31_Witness ==
    /\ Settled /\ nsub = 0 /\ nops = 2
    /\ \E t \in TreeIds : \E p \in AllPos(trees[t]) :
          /\ Len(NodeAt(trees[t], p).route) >= 2
          /\ p + 1 < DataLen(trees[t])
          /\ NodeAt(trees[t], p + 1).route = <<>>

(***************************************************************************)
(* What write emits for each node.                                         *)
(***************************************************************************)
\* the top entries of T: those labelled #
TopLevel(T) == Filter(T, Ascending(0, DataLen(T) - 1), <<>>)

\* the events the claim gives the node at p and, between the open and the
\* close tag of an element, its children
RECURSIVE Emitted(_, _)
Emitted(T, seq) ==
    IF seq = <<>> THEN <<>>
    ELSE LET node == NodeAt(T, Head(seq))
             tail == <<Ev("Text", "", <<>>, node.tail)>>
             own == IF IsSynthetic(node.name)
                    THEN <<Ev("Leaf", node.name, <<>>, node.text.s)>>
                         \o Emitted(T, Children(T, Head(seq))) \o tail
                    ELSE IF ~node.text.some
                         THEN <<Ev("Empty", node.name, node.attr, <<>>)>> \o tail
                         ELSE <<Ev("Start", node.name, node.attr, <<>>),
                                Ev("Text", "", <<>>, node.text.s)>>
                              \o Emitted(T, Children(T, Head(seq)))
                              \o <<Ev("End", node.name, <<>>, <<>>)>> \o tail
         IN own \o Emitted(T, Tail(seq))

TextStep == Reading /\ pc' = pc /\ rd.prevk = "tag" /\ rd'.prevk = "Text"

\* this step of read consumes an event that is not a Text event
TagStep == Reading /\ pc' = pc /\ rd'.prevk = "tag"

\* the event before was a start tag: the label names the last entry
JustOpened ==
    /\ rd.route # <<>> /\ DataLen(trees[1]) > 0
    /\ rd.route[Len(rd.route)] = NodeAt(trees[1], DataLen(trees[1]) - 1).idx

\* the construct closed last: the last entry that carries the current label
ClosedLast ==
    SetMax({p \in AllPos(trees[1]) : NodeAt(trees[1], p).route = rd.route})

ParsedTexts == {<<"n">>, <<"n", "s">>, <<"x">>}

\* C33: while parsing, a text event right after a start tag becomes the text
\* of the element just opened and a text event after a close tag, a
\* self-closing tag, a comment, CDATA, processing instruction or doctype
\* becomes the tail of the construct closed last, nothing else changing; an
\* element appended by a start tag has the empty text, one appended by a
\* self-closing tag has no text, and no other event changes an entry.
C33_TextOrTail ==
    [][/\ TextStep =>
             IF JustOpened
             THEN \E v \in ParsedTexts :
                     trees'[1] = SetText(trees[1], DataLen(trees[1]) - 1, v)
             ELSE IF DataLen(trees[1]) > 0
                  THEN \E v \in ParsedTexts :
                          trees'[1] = SetTail(trees[1], ClosedLast, v)
                  ELSE trees'[1] = trees[1]
       /\ TagStep =>
             /\ SubSeq(trees'[1].data, 1, DataLen(trees[1])) = trees[1].data
             /\ DataLen(trees'[1]) > DataLen(trees[1]) =>
                   LET node == NodeAt(trees'[1], DataLen(trees[1]))
                   IN /\ DataLen(trees'[1]) = DataLen(trees[1]) + 1
                      /\ ~IsSynthetic(node.name) =>
                            node.text = IF Len(rd'.route) > Len(rd.route)
                                        THEN Some(<<>>) ELSE None]_vars

\* read has given an element a text, closed an inner element after it and
\* given that one a tail
C33_Witness ==
    /\ pc = "parse" /\ rd.prevk = "Text"
    /\ \E p, q \in AllPos(trees[1]) :
          /\ NodeAt(trees[1], p).text = Some(<<"x">>)
          /\ Parent(trees[1], q) = p
          /\ ~IsSynthetic(NodeAt(trees[1], q).name)
          /\ NodeAt(trees[1], q).text.some
          /\ NodeAt(trees[1], q).tail # <<>>

(***************************************************************************)
(* Identities and labels after parsing.                                    *)
(***************************************************************************)
\* the entry at position i has identity i and the counter is the number of
\* entries
Numbered(T) ==
    /\ T.count = DataLen(T)
    /\ \A i \in AllPos(T) : NodeAt(T, i).idx = i

\* the labels of the entries that the events append, open being the
\* identities of the elements not closed yet and n the entries appended
RECURSIVE LabelsOf(_, _, _)
LabelsOf(events, open, n) ==
    IF events = <<>> THEN <<>>
    ELSE LET e == Head(events)
         IN CASE e.k = "Start" ->
                   <<open>> \o LabelsOf(Tail(events), Append(open, n), n + 1)
              [] e.k = "End" ->
                   LabelsOf(Tail(events), SubSeq(open, 1, Len(open) - 1), n)
              [] e.k \in {"Empty", "Leaf"} ->
                   <<open>> \o LabelsOf(Tail(events), open, n + 1)
              [] OTHER -> LabelsOf(Tail(events), open, n)

\* the current label names the elements still open, outermost first: each
\* carries the label made of the identities before its own
OpenChain(T, route) ==
    \A k \in 1..Len(route) :
        /\ route[k] < DataLen(T)
        /\ NodeAt(T, route[k]).route = SubSeq(route, 1, k - 1)

\* C34: while and after a document is parsed the entry at position i has
\* identity i, the counter is the number of entries and the current label
\* lists the elements still open, each labelled with the part of the current
\* label before its own identity; after read has
\* consumed a well-nested event stream every entry carries the label that
\* was current when it was appended (the identity pushed by a start tag,
\* the last segment popped by a close tag) and the current label is #.
C34_ParsedLabels ==
    /\ pc \in {"parse", "parsed"} =>
          Numbered(trees[1]) /\ OpenChain(trees[1], rd.route)
    /\ pc = "written" /\ ~fault =>
          \A ev \in {Tokenize(out)} : Nested(ev, <<>>) =>
              \A P \in {Read(ReaderInit(<<"n">>), ev)} :
                  /\ Numbered(P.tree)
                  /\ [i \in 1..Len(P.tree.data) |-> P.tree.data[i].route]
                        = LabelsOf(ev, <<>>, 0)
                  /\ P.route = <<>>

\* the stream written is well nested and holds an element inside an element
\* and an entry after the root is closed
C34_Witness ==
    /\ pc = "written" /\ ~fault
    /\ Nested(Tokenize(out), <<>>)
    /\ \E i \in 1..Len(out) - 2 : out[i].k = "Start" /\ out[i + 2].k = "Start"
    /\ out[Len(out) - 1].k = "Leaf"

(***************************************************************************)
(* pretty on trees with self-closing elements.                             *)
(***************************************************************************)
\* C35: pretty(indent) with a non-empty indent on a parsed tree, self-closing
\* elements included, does not panic and leaves every absent text absent.
C35_PrettyCompletes ==
    [][last'.op = "pretty" /\ nops' = nops + 1 /\ last'.t = 1
         /\ last'.indent # <<>> =>
           /\ ~fault'
           /\ \A p \in AllPos(trees[1]) :
                 ~NodeAt(trees[1], p).text.some => ~NodeAt(trees'[1], p).text.some]_vars

(***************************************************************************)
(* position() and last().                                                  *)
(***************************************************************************)
\* the step sep name[pred]
StepWith(sep, name, pred) == sep \o <<name, "[">> \o pred \o <<"]">>

\* position()=k, last()=k and position()=last()
PositionIs(k) == <<"p", "o", "s", "i", "t", "i", "o", "n", "(", ")", "=">> \o Digits(k)

LastIs(k) == <<"l", "a", "s", "t", "(", ")", "=">> \o Digits(k)

PositionIsLast ==
    <<"p", "o", "s", "i", "t", "i", "o", "n", "(", ")", "=", "l", "a", "s", "t", "(", ")">>

Separators == {<<"/">>, <<"/", "/">>}

\* the tag-filtered candidates of the step sep name from pos
Candidates(T, sep, name, pos) ==
    NamedIn(T, IF sep = <<"/", "/">> THEN Descendant(T, pos) ELSE Children(T, pos), name)

\* C36: in a step from the input node pos, position() of a candidate is its
\* rank, counted from 1, in the list of the candidates that carry the step's
\* name and last() is the length of that list: [position()=k] selects the
\* k-th candidate, [last()=k] all candidates when there are k of them, and
\* [position()=last()] the last candidate.
C36_PositionAndLast ==
    Operating =>
        \A pos \in AllPos(trees[1]), sep \in Separators, name \in StepNames :
            \A L \in {Candidates(trees[1], sep, name, pos)} :
                /\ \A k \in 1..3 :
                      /\ Find(trees[1], StepWith(sep, name, PositionIs(k)), pos)
                            = IF k <= Len(L) THEN <<L[k]>> ELSE <<>>
                      /\ Find(trees[1], StepWith(sep, name, LastIs(k)), pos)
                            = IF k = Len(L) THEN L ELSE <<>>
                /\ Find(trees[1], StepWith(sep, name, PositionIsLast), pos)
                      = IF L = <<>> THEN <<>> ELSE <<L[Len(L)]>>

(***************************************************************************)
(* What a step gathers.                                                    *)
(***************************************************************************)
\* the parent of pos as a list: empty when pos has none
ParentOf(T, pos) == IF Parent(T, pos) = NoPos THEN <<>> ELSE <<Parent(T, pos)>>

\* C37: from a start node pos, /name yields the children of pos named name
\* and //name its descendants named name, pos itself never among them, in
\* document order; a bare leading name yields what //name yields, a leading
\* . is dropped, and .. yields the parent of pos or nothing.
C37_StepGathers ==
    /\ Operating =>
          \A pos \in AllPos(trees[1]), name \in StepNames :
              /\ ForwardItems(<<"/", name>>, pos)
                    = NamedIn(trees[1], Children(trees[1], pos), name)
              /\ ForwardItems(<<"/", "/", name>>, pos)
                    = NamedIn(trees[1], Descendant(trees[1], pos), name)
              /\ ~InSeq(ForwardItems(<<"/", "/", name>>, pos), pos)
              /\ ForwardItems(<<name>>, pos) = ForwardItems(<<"/", "/", name>>, pos)
              /\ ForwardItems(<<".", "/", name>>, pos) = ForwardItems(<<"/", name>>, pos)
              /\ ForwardItems(<<".", "/", "/", name>>, pos)
                    = ForwardItems(<<"/", "/", name>>, pos)
              /\ ForwardItems(<<".", ".">>, pos) = ParentOf(trees[1], pos)
              /\ ForwardItems(<<".", ".", "/", name>>, pos)
                    = IF Parent(trees[1], pos) = NoPos THEN <<>>
                      ELSE NamedIn(trees[1], Children(trees[1], Parent(trees[1], pos)), name)
    /\ Forward /\ iter.path = PathBare =>
          iter.got = NamedIn(trees[1], Descendant(trees[1], iter.pos), "b")

\* the caller has drained the iterator of the bare name b from the root of a
\* document in which a b lies inside a b
C37_Witness ==
    /\ Forward /\ iter.path = PathBare /\ iter.pos = 0
    /\ Len(iter.got) = 2
    /\ Parent(trees[1], iter.got[2]) = iter.got[1]

(***************************************************************************)
(* Repeated items.                                                         *)
(***************************************************************************)
\* C38: an iterator yields no position twice, whatever the tree, the start
\* position and the path, paths with several // steps or a .. step included.
C38_NoRepeats ==
    iter # NoIter /\ ~fault =>
        \A i, j \in 1..Len(iter.got) : i # j => iter.got[i] # iter.got[j]

(***************************************************************************)
(* The predicate grammar of xpath.rs. A parser takes the characters that   *)
(* are left and returns, as nom's IResult does, whether it matched, the    *)
(* value it parsed and the characters after it.                            *)
(***************************************************************************)
\* the characters of the inputs, in the order of their codes
Ascii ==
    <<"(", ")", "*", "0", "1", "2", "3", "4", "5", "6", "7", "8", "9", ":",
      "@", "A", "B", "C", "D", "E", "F", "G", "H", "I", "J", "K", "L", "M",
      "N", "O", "P", "Q", "R", "S", "T", "U", "V", "W", "X", "Y", "Z", "_",
      "a", "b", "c", "d", "e", "f", "g", "h", "i", "j", "k", "l", "m",
      "n", "o", "p", "q", "r", "s", "t", "u", "v", "w", "x", "y", "z">>

Letters == {Ascii[i] : i \in (16..41) \cup (43..68)}

Numerals == {Ascii[i] : i \in 4..13}

Blanks == {" ", "\t"}

Matched(rest, val) == [ok |-> TRUE, rest |-> rest, val |-> val]

Unmatched(input) == [ok |-> FALSE, rest |-> input, val |-> <<>>]

Take(input, n) == SubSeq(input, 1, n)

Skip(input, n) == SubSeq(input, n + 1, Len(input))

\* the number of leading characters of input that are in class
Run(input, class) ==
    CHOOSE n \in 0..Len(input) :
        /\ \A i \in 1..n : input[i] \in class
        /\ n = Len(input) \/ input[n + 1] \notin class

\* the element of a set of one element
Only(S) == CHOOSE x \in S : TRUE

\* nom's alt: the first parser that matches
Alt(input, results) ==
    Only({IF \E i \in 1..Len(rs) : rs[i].ok
          THEN rs[CHOOSE i \in 1..Len(rs) : rs[i].ok /\ \A j \in 1..(i - 1) : ~rs[j].ok]
          ELSE Unmatched(input) : rs \in {results}})

tag(word, input) ==
    IF Len(input) >= Len(word) /\ Take(input, Len(word)) = word
    THEN Matched(Skip(input, Len(word)), word)
    ELSE Unmatched(input)

space0(input) ==
    Matched(Skip(input, Run(input, Blanks)), Take(input, Run(input, Blanks)))

space1(input) ==
    IF Run(input, Blanks) = 0 THEN Unmatched(input) ELSE space0(input)

\* Predictor
Condition(left, op, right) ==
    [k |-> "Condition", left |-> left, op |-> op, right |-> right]

And(left, right) == [k |-> "And", left |-> left, right |-> right]

Or(left, right) == [k |-> "Or", left |-> left, right |-> right]

IndexDecimal(left) == [k |-> "IndexDecimal", left |-> left]

IndexExpr(left, right) == [k |-> "IndexExpr", left |-> left, right |-> right]

decimal(input) ==
    IF Run(input, Numerals) = 0
    THEN Unmatched(input)
    ELSE Matched(Skip(input, Run(input, Numerals)), Take(input, Run(input, Numerals)))

\* a letter, _ or : and then letters, digits, _ and :
name(input) ==
    IF input = <<>> \/ input[1] \notin Letters \cup {"_", ":"}
    THEN Unmatched(input)
    ELSE LET n == 1 + Run(Skip(input, 1), Letters \cup Numerals \cup {"_", ":"})
         IN Matched(Skip(input, n), Take(input, n))

\* = is returned as ==
operator(input) ==
    Alt(input, <<tag(<<">", "=">>, input),
                 tag(<<"<", "=">>, input),
                 tag(<<">">>, input),
                 tag(<<"<">>, input),
                 tag(<<"!", "=">>, input),
                 IF tag(<<"=">>, input).ok
                 THEN Matched(Skip(input, 1), <<"=", "=">>)
                 ELSE Unmatched(input)>>)

\* nom's escaped(none_of("'\\"), '\\', one_of("\\'")) after n characters:
\* the characters it consumes, or NoPos when it fails (a backslash before
\* a character that cannot be escaped, or nothing consumed before a quote)
RECURSIVE Escaped(_, _)
Escaped(input, n) ==
    IF n = Len(input) THEN n
    ELSE IF input[n + 1] \notin {"'", "\\"} THEN Escaped(input, n + 1)
    ELSE IF input[n + 1] = "\\"
         THEN IF n + 2 <= Len(input) /\ input[n + 2] \in {"\\", "'"}
              THEN Escaped(input, n + 2)
              ELSE NoPos
         ELSE IF n = 0 THEN NoPos ELSE n

\* a quoted string, returned with its quotes
string(input) ==
    IF ~tag(<<"'">>, input).ok
    THEN Unmatched(input)
    ELSE LET body == Skip(input, 1)
             n == IF Escaped(body, 0) = NoPos THEN 0 ELSE Escaped(body, 0)
         IN IF tag(<<"'">>, Skip(body, n)).ok
            THEN Matched(Skip(body, n + 1), Take(input, n + 2))
            ELSE Unmatched(input)

LastCall == <<"l", "a", "s", "t", "(", ")">>

PositionCall == <<"p", "o", "s", "i", "t", "i", "o", "n", "(", ")">>

TextCall == <<"t", "e", "x", "t", "(", ")">>

\* last() - decimal
LastMinus(input) ==
    LET l == tag(LastCall, input)
        m == tag(<<"-">>, space0(l.rest).rest)
        d == decimal(space0(m.rest).rest)
    IN IF l.ok /\ m.ok /\ d.ok
       THEN Matched(d.rest, IndexExpr(l.val, d.val))
       ELSE Unmatched(input)

index(input) ==
    Alt(input, <<IF decimal(input).ok
                 THEN Matched(decimal(input).rest, IndexDecimal(decimal(input).val))
                 ELSE Unmatched(input),
                 LastMinus(input),
                 IF tag(LastCall, input).ok
                 THEN Matched(tag(LastCall, input).rest, IndexExpr(LastCall, <<>>))
                 ELSE Unmatched(input)>>)

\* tag("@") and a name
AtName(input) ==
    LET a == tag(<<"@">>, input)
        n == name(a.rest)
    IN IF a.ok /\ n.ok
       THEN Matched(n.rest, <<"@">> \o n.val)
       ELSE Unmatched(input)

\* the left operand l, then space0, an operator, space0 and a string or,
\* for position(), a decimal
Compared(input, l, quoted) ==
    LET o == operator(space0(l.rest).rest)
        r == IF quoted
             THEN string(space0(o.rest).rest)
             ELSE decimal(space0(o.rest).rest)
    IN IF l.ok /\ o.ok /\ r.ok
       THEN Matched(r.rest, Condition(l.val, Some(o.val), Some(r.val)))
       ELSE Unmatched(input)

\* the left operand l alone
Bare(input, l) ==
    IF l.ok THEN Matched(l.rest, Condition(l.val, None, None)) ELSE Unmatched(input)

RECURSIVE condition(_), conditions_and(_), conditions_or(_), Grouped(_, _)

\* space0 and ) after what the parentheses hold
Closed(input, inner) ==
    IF inner.ok /\ tag(<<")">>, space0(inner.rest).rest).ok
    THEN Matched(tag(<<")">>, space0(inner.rest).rest).rest, inner.val)
    ELSE Unmatched(input)

\* ( condition ), ( conditions_and ) and ( conditions_or )
Grouped(input, level) ==
    IF ~tag(<<"(">>, input).ok
    THEN Unmatched(input)
    ELSE Only({Closed(input, inner) :
                 inner \in {CASE level = 1 -> condition(space0(Skip(input, 1)).rest)
                              [] level = 2 -> conditions_and(space0(Skip(input, 1)).rest)
                              [] OTHER -> conditions_or(space0(Skip(input, 1)).rest)}})

condition(input) ==
    Alt(input, <<Compared(input, name(input), TRUE),
                 Compared(input, AtName(input), TRUE),
                 Compared(input, tag(TextCall, input), TRUE),
                 Compared(input, tag(PositionCall, input), FALSE),
                 Bare(input, name(input)),
                 Bare(input, AtName(input)),
                 Bare(input, tag(<<"@", "*">>, input)),
                 Grouped(input, 1),
                 Grouped(input, 2),
                 Grouped(input, 3)>>)

AndLess(input) == condition(input)

\* space1, the word and space1: the characters after them
Joined(input, word) ==
    LET s == space1(input)
        w == tag(word, s.rest)
        t == space1(w.rest)
    IN IF s.ok /\ w.ok /\ t.ok THEN Matched(t.rest, word) ELSE Unmatched(input)

\* condition and condition, or else the condition alone
conditions_and(input) ==
    Only({IF l.ok /\ Joined(l.rest, <<"a", "n", "d">>).ok
          THEN Only({IF r.ok THEN Matched(r.rest, And(l.val, r.val)) ELSE l :
                       r \in {condition(Joined(l.rest, <<"a", "n", "d">>).rest)}})
          ELSE l : l \in {condition(input)}})

\* conditions_and or conditions_and, or else the conditions_and alone
conditions_or(input) ==
    Only({IF l.ok /\ Joined(l.rest, <<"o", "r">>).ok
          THEN Only({IF r.ok THEN Matched(r.rest, Or(l.val, r.val)) ELSE l :
                       r \in {conditions_and(Joined(l.rest, <<"o", "r">>).rest)}})
          ELSE l : l \in {conditions_and(input)}})

(***************************************************************************)
(* Predictor::collect and Predictor::expr.                                 *)
(***************************************************************************)
Code(c) == CHOOSE i \in 1..Len(Ascii) : Ascii[i] = c

\* the order of String: the first differing character decides, a proper
\* prefix comes first
Less(a, b) ==
    \E i \in 1..Len(b) :
        /\ i - 1 <= Len(a)
        /\ Take(a, i - 1) = Take(b, i - 1)
        /\ i > Len(a) \/ Code(a[i]) < Code(b[i])

\* into_iter().collect() of a HashSet and sort()
RECURSIVE SortedVec(_)
SortedVec(S) ==
    IF S = {}
    THEN <<>>
    ELSE LET m == CHOOSE x \in S : \A y \in S \ {x} : Less(x, y)
         IN <<m>> \o SortedVec(S \ {m})

Items(v) == {v[i] : i \in 1..Len(v)}

\* the three sets of an And or an Or: extend with what both operands report
Extended(l, r) ==
    <<SortedVec(Items(l[1]) \cup Items(r[1])),
      SortedVec(Items(l[2]) \cup Items(r[2])),
      SortedVec(Items(l[3]) \cup Items(r[3]))>>

RECURSIVE PredictorCollect(_)
PredictorCollect(P) ==
    IF P.k \in {"And", "Or"}
    THEN Only({Extended(l, r) : l \in {PredictorCollect(P.left)},
                                r \in {PredictorCollect(P.right)}})
    ELSE IF P.k = "Condition"
    THEN IF P.left # <<>> /\ P.left[1] = "@"
         THEN <<<<>>, <<Skip(P.left, 1)>>, <<>>>>
         ELSE IF Len(P.left) >= 2 /\ Skip(P.left, Len(P.left) - 2) = <<"(", ")">>
         THEN <<<<>>, <<>>, <<P.left>>>>
         ELSE <<<<P.left>>, <<>>, <<>>>>
    ELSE IF P.k = "IndexExpr"
    THEN <<<<>>, <<>>, <<LastCall>>>>
    ELSE <<<<>>, <<>>, <<>>>>

\* a backslash before every backslash and every quote
RECURSIVE escape_info(_)
escape_info(input) ==
    IF input = <<>> THEN <<>>
    ELSE (IF input[1] = "\\" THEN <<"\\", "\\">>
          ELSE IF input[1] = "'" THEN <<"\\", "'">>
          ELSE <<input[1]>>) \o escape_info(Skip(input, 1))

Rendered(text) == [fault |-> FALSE, text |-> text]

\* unwrap of a value that info does not hold
Panicked == [fault |-> TRUE, text |-> <<>>]

ExprOfPresent(P, info) == Rendered(<<"t", "r", "u", "e">>)

RECURSIVE PredictorExpr(_, _)
PredictorExpr(P, info) ==
    IF P.k \in {"And", "Or"}
    THEN LET l == PredictorExpr(P.left, info)
             r == PredictorExpr(P.right, info)
         IN IF l.fault \/ r.fault
            THEN Panicked
            ELSE Rendered(<<"(">> \o l.text
                          \o (IF P.k = "And"
                              THEN <<")", " ", "&", "&", " ", "(">>
                              ELSE <<")", " ", "|", "|", " ", "(">>)
                          \o r.text \o <<")">>)
    ELSE IF P.k = "Condition"
    THEN IF P.left \in DOMAIN info
         THEN IF ~P.op.some \/ ~P.right.some
              THEN Rendered(<<"t", "r", "u", "e">>)
              ELSE Rendered(<<"'">> \o escape_info(info[P.left]) \o <<"'", " ">>
                            \o P.op.s \o <<" ">> \o P.right.s)
         ELSE Rendered(<<"f", "a", "l", "s", "e">>)
    ELSE IF P.k = "IndexDecimal"
    THEN IF PositionCall \in DOMAIN info
         THEN Rendered(info[PositionCall] \o <<" ", "=", "=", " ">> \o P.left)
         ELSE Panicked
    ELSE IF P.k = "IndexExpr"
    THEN IF PositionCall \in DOMAIN info /\ LastCall \in DOMAIN info
              /\ P.left \in DOMAIN info
         THEN IF P.right = <<>>
              THEN Rendered(info[PositionCall] \o <<" ", "=", "=", " ">> \o info[P.left])
              ELSE Rendered(info[PositionCall] \o <<" ", "=", "=", " ">> \o info[P.left]
                            \o <<" ", "-", " ">> \o P.right)
         ELSE Panicked
    ELSE Rendered(<<"t", "r", "u", "e">>)

(***************************************************************************)
(* Predicates: the caller holds the text of a predicate, has it parsed by  *)
(* conditions_or or by index, asks the Predictor for the names it refers   *)
(* to and then for its expression.                                         *)
(***************************************************************************)
QuotedV == Quoted(<<"v">>)

\* the atomic conditions of the grammar: their text and their Predictor
AtomicConditions ==
    {[text |-> <<"c">>, val |-> Condition(<<"c">>, None, None)],
     [text |-> <<"@", "k">>, val |-> Condition(<<"@", "k">>, None, None)],
     [text |-> <<"@", "*">>, val |-> Condition(<<"@", "*">>, None, None)],
     [text |-> <<"c", "=">> \o QuotedV,
      val |-> Condition(<<"c">>, Some(<<"=", "=">>), Some(QuotedV))],
     [text |-> <<"@", "j", " ", "!", "=", " ">> \o QuotedV,
      val |-> Condition(<<"@", "j">>, Some(<<"!", "=">>), Some(QuotedV))],
     [text |-> TextCall \o <<"<">> \o QuotedV,
      val |-> Condition(TextCall, Some(<<"<">>), Some(QuotedV))],
     [text |-> PositionCall \o <<">", "=", "2">>,
      val |-> Condition(PositionCall, Some(<<">", "=">>), Some(<<"2">>))]}

\* A or B and C
OrAnd(A, B, C) == A \o <<" ", "o", "r", " ">> \o B \o <<" ", "a", "n", "d", " ">> \o C

\* A and B or C
AndOr(A, B, C) == A \o <<" ", "a", "n", "d", " ">> \o B \o <<" ", "o", "r", " ">> \o C

\* text()='aa' and (@id='bb' or @gid), of tests::test_predictor_expr
TestPredicate ==
    TextCall \o <<"=", "'", "a", "a", "'", " ", "a", "n", "d", " ", "(",
                  "@", "i", "d", "=", "'", "b", "b", "'", " ", "o", "r", " ",
                  "@", "g", "i", "d", ")">>

XPathInputs ==
    {a.text : a \in AtomicConditions}
        \cup {OrAnd(a.text, b.text, c.text) : a, b, c \in AtomicConditions}
        \cup {AndOr(a.text, b.text, c.text) : a, b, c \in AtomicConditions}
        \cup {TestPredicate, <<"2">>, LastCall, LastCall \o <<" ", "-", " ", "1">>}

Entered(input) ==
    [op |-> "none", parser |-> "none", input |-> input, ret |-> Unmatched(input),
     names |-> <<>>, info |-> <<>>, text |-> <<>>]

InitXPath ==
    /\ trees = [t \in TreeIds |-> From(NewNode("b"))]
    /\ rd = RdInit
    /\ pc = "xpath"
    /\ \E input \in XPathInputs : last = Entered(input)
    /\ nops = 0
    /\ nsub = 0
    /\ out = <<>>
    /\ iter = NoIter
    /\ fault = FALSE

DoConditionsOr ==
    /\ pc = "xpath"
    /\ pc' = "parsed"
    /\ last' = [last EXCEPT !.op = "conditions_or", !.parser = "conditions_or",
                            !.ret = conditions_or(last.input)]
    /\ UNCHANGED <<trees, rd, nops, nsub, out, iter, fault>>

DoIndex ==
    /\ pc = "xpath"
    /\ pc' = "parsed"
    /\ last' = [last EXCEPT !.op = "index", !.parser = "index",
                            !.ret = index(last.input)]
    /\ UNCHANGED <<trees, rd, nops, nsub, out, iter, fault>>

DoCollect ==
    /\ pc = "parsed" /\ last.ret.ok
    /\ pc' = "collected"
    /\ last' = [last EXCEPT !.op = "collect", !.names = PredictorCollect(last.ret.val)]
    /\ UNCHANGED <<trees, rd, nops, nsub, out, iter, fault>>

\* the names collect reports, as they are
Reported(P) ==
    Items(PredictorCollect(P)[1]) \cup Items(PredictorCollect(P)[2])
        \cup Items(PredictorCollect(P)[3])

\* the names collect reports, the attribute names after an @
Keyed(P) ==
    Items(PredictorCollect(P)[1])
        \cup {<<"@">> \o a : a \in Items(PredictorCollect(P)[2])}
        \cup Items(PredictorCollect(P)[3])

InfoValues == {<<"2">>, <<"a", "'", "\\">>}

\* the maps a caller supplies: no value, the reported names, the keyed
\* names, those and position(), or all but one of the latter
InfoKeys(P) ==
    {{}, Reported(P), Keyed(P), Keyed(P) \cup {PositionCall}}
        \cup {(Keyed(P) \cup {PositionCall}) \ {key} : key \in Keyed(P) \cup {PositionCall}}

DoExpr ==
    /\ pc = "collected"
    /\ pc' = "rendered"
    /\ \E keys \in InfoKeys(last.ret.val), value \in InfoValues :
          \E info \in {[key \in keys |-> value]} :
             \E R \in {PredictorExpr(last.ret.val, info)} :
                /\ last' = [last EXCEPT !.op = "expr", !.info = info, !.text = R.text]
                /\ fault' = R.fault
    /\ UNCHANGED <<trees, rd, nops, nsub, out, iter>>

StepXPath ==
    \/ DoConditionsOr
    \/ DoIndex
    \/ DoCollect
    \/ DoExpr

SpecXPath == InitXPath /\ [][StepXPath]_vars

\* C39: and binds tighter than or. For all atomic conditions A, B and C,
\* conditions_or parses A or B and C as Or(A, And(B, C)) and A and B or C
\* as Or(And(A, B), C), and no character of the input is left.
C39_AndBindsTighter ==
    last.parser = "conditions_or" =>
        \A a, b, c \in AtomicConditions :
           /\ last.input = OrAnd(a.text, b.text, c.text) =>
                 last.ret = Matched(<<>>, Or(a.val, And(b.val, c.val)))
           /\ last.input = AndOr(a.text, b.text, c.text) =>
                 last.ret = Matched(<<>>, Or(And(a.val, b.val), c.val))

C39_Witness ==
    /\ pc = "parsed" /\ last.parser = "conditions_or"
    /\ \E a, b, c \in AtomicConditions :
          /\ a # b /\ b # c /\ b.val.op.some /\ ~c.val.op.some
          /\ last.input = AndOr(a.text, b.text, c.text)
          /\ last.ret.ok /\ last.ret.val.k = "Or" /\ last.ret.val.left.k = "And"

\* the nodes of a Predictor
RECURSIVE Subterms(_)
Subterms(P) ==
    IF P.k \in {"And", "Or"}
    THEN {P} \cup Subterms(P.left) \cup Subterms(P.right)
    ELSE {P}

Conditions(P) == {Q \in Subterms(P) : Q.k = "Condition"}

EndsWithCall(str) == Len(str) >= 2 /\ str[Len(str) - 1] = "(" /\ str[Len(str)] = ")"

\* expr on every node of the predicate: a condition whose left operand the
\* map does not hold is false, one without operator whose operand it holds
\* is true, And and Or are the parenthesised && and || of their operands
ExprRenders ==
    last.op = "expr" =>
        /\ last.text = PredictorExpr(last.ret.val, last.info).text
        /\ \A Q \in Subterms(last.ret.val) :
              \A R \in {PredictorExpr(Q, last.info)} :
                 /\ Q.k = "Condition" /\ Q.left \notin DOMAIN last.info =>
                       ~R.fault /\ R.text = <<"f", "a", "l", "s", "e">>
                 /\ Q.k = "Condition" /\ Q.left \in DOMAIN last.info /\ ~Q.op.some =>
                       ~R.fault /\ R.text = <<"t", "r", "u", "e">>
                 /\ Q.k = "And" /\ ~R.fault =>
                       R.text = <<"(">> \o PredictorExpr(Q.left, last.info).text
                                  \o <<")", " ", "&", "&", " ", "(">>
                                  \o PredictorExpr(Q.right, last.info).text \o <<")">>
                 /\ Q.k = "Or" /\ ~R.fault =>
                       R.text = <<"(">> \o PredictorExpr(Q.left, last.info).text
                                  \o <<")", " ", "|", "|", " ", "(">>
                                  \o PredictorExpr(Q.right, last.info).text \o <<")">>

\* collect: the child names, the attribute names without their @ and the
\* function names the predicate refers to, each list in ascending order
\* without a repeated name
CollectReports ==
    last.op = "collect" =>
        /\ Len(last.names) = 3
        /\ \A i \in 1..3 : \A j \in 1..(Len(last.names[i]) - 1) :
              Less(last.names[i][j], last.names[i][j + 1])
        /\ Items(last.names[1]) =
              {Q.left : Q \in {C \in Conditions(last.ret.val) :
                                  C.left[1] # "@" /\ ~EndsWithCall(C.left)}}
        /\ Items(last.names[2]) =
              {Skip(Q.left, 1) : Q \in {C \in Conditions(last.ret.val) : C.left[1] = "@"}}
        /\ Items(last.names[3]) =
              {Q.left : Q \in {C \in Conditions(last.ret.val) :
                                  C.left[1] # "@" /\ EndsWithCall(C.left)}}
                 \cup {LastCall : Q \in {I \in Subterms(last.ret.val) : I.k = "IndexExpr"}}

\* expr found every operand it looked up
NothingMissing ==
    ~fault /\ \A Q \in Conditions(last.ret.val) : Q.left \in DOMAIN last.info

\* C40 as stated: expr renders a condition with a missing left operand as
\* false, an operator-less condition with its operand as true, And and Or as
\* the parenthesised && and ||; collect returns three sorted duplicate-free
\* lists; and a map with a value for every name collect reports is enough
\* for expr to find every operand.
C40_ReportedNamesSuffice ==
    /\ ExprRenders
    /\ CollectReports
    /\ last.op = "expr" /\ Reported(last.ret.val) \subseteq DOMAIN last.info =>
          NothingMissing

\* C40 amended: as above, but the map holds a value under every child name,
\* under @ and every attribute name, under every function name collect
\* reports, and under position().
C40_KeyedNamesSuffice ==
    /\ ExprRenders
    /\ CollectReports
    /\ last.op = "expr"
         /\ Keyed(last.ret.val) \cup {PositionCall} \subseteq DOMAIN last.info =>
          NothingMissing

C40_Witness ==
    /\ last.op = "expr" /\ last.input = TestPredicate /\ last.names # <<>>
    /\ last.names[2] = <<<<"g", "i", "d">>, <<"i", "d">>>>
    /\ Keyed(last.ret.val) \cup {PositionCall} \subseteq DOMAIN last.info
    /\ ~fault /\ last.ret.val.k = "And"

====
